---------------------------- MODULE Spec2Model ----------------------------
(***************************************************************************)
(* Model of the Lixpi LLM gateway (services/llm-api): the CHAT_PROCESS and *)
(* CHAT_STOP handlers, the provider registry, the per-request workflow     *)
(* validate -> stream -> account -> cleanup run under the circuit-breaker  *)
(* timeout, the OpenAI and Anthropic adapters, and the fire-and-forget     *)
(* publish path of NatsService.                                            *)
(*                                                                         *)
(* Scheduling.  The service is one asyncio event loop.  A coroutine runs   *)
(* without interruption between two awaits that really suspend, so every   *)
(* action below is one such segment.  The NATS client gives every          *)
(* subscription one message loop that awaits the callback of a message     *)
(* before it takes the next one; the callback installed by                 *)
(* NatsService.subscribe awaits the handler.  CHAT_PROCESS messages are    *)
(* therefore handled one after the other, while CHAT_STOP messages (their  *)
(* own subscription), publish tasks and the timeout interleave with a      *)
(* running request at its suspension points.                               *)
(*                                                                         *)
(* Strings that the code splits or joins are sequences of atoms: an atom   *)
(* is a separator ("." or ":") or a piece of text holding no separator.    *)
(***************************************************************************)
EXTENDS Integers, Sequences, FiniteSets, TLC

(***************************************************************************)
(* Bounds of the model.                                                    *)
(***************************************************************************)
\* CHAT_PROCESS messages received and not yet forgotten (queued or handled).
MaxInFlight == 2
\* Text-delta events the vendor emits to the requests not yet forgotten.
MaxDeltas == 3
\* Other events (image, completed, failed) the vendor emits to them.
MaxOther == 1
\* Publish tasks created and not yet run.
MaxPending == 2
\* Finished requests not yet forgotten when the next handler starts.
MaxFinished == 0
\* Clock ticks between the two readings a request takes of datetime.now().
MaxElapsed == 1
\* Text-delta events and other events of the image scenarios (one request).
MaxImageDeltas == 1
MaxImageEvents == 3
\* Connect attempts that fail, forced closes of a connection, and
\* reconnects the NATS library makes by itself.
MaxConnectFailures == 2
MaxCloses == 2
MaxReconnects == 1
\* Calls of NatsService.publish.
MaxPublishes == 2

NoneVal == "None"
\* None, in a field that holds a time.
NoTime == -1

(***************************************************************************)
(* Strings as sequences of atoms.                                          *)
(***************************************************************************)
RECURSIVE SplitDot(_)
\* str.split('.')
SplitDot(s) ==
    IF s = <<>> THEN << <<>> >>
    ELSE LET r == SplitDot(Tail(s)) IN
         IF Head(s) = "." THEN << <<>> >> \o r
         ELSE << <<Head(s)>> \o Head(r) >> \o Tail(r)

RECURSIVE JoinDot(_)
\* '.'.join(parts)
JoinDot(parts) ==
    IF parts = <<>> THEN <<>>
    ELSE IF Len(parts) = 1 THEN parts[1]
    ELSE parts[1] \o <<".">> \o JoinDot(Tail(parts))

\* parts[n:]
DropParts(parts, n) == SubSeq(parts, n + 1, Len(parts))

CHAT_PROCESS == <<"ai", ".", "interaction", ".", "chat", ".", "process">>
CHAT_STOP == <<"ai", ".", "interaction", ".", "chat", ".", "stop">>
CHAT_ERROR == <<"ai", ".", "interaction", ".", "chat", ".", "error">>
RECEIVE_MESSAGE == <<"ai", ".", "interaction", ".", "chat", ".", "receiveMessage">>

\* f"{workspace_id}:{ai_chat_thread_id}"
InstanceKey(ws, th) == <<ws, ":", th>>

\* f"ai.interaction.chat.receiveMessage.{workspace_id}.{ai_chat_thread_id}"
ReceiveSubject(ws, th) == RECEIVE_MESSAGE \o <<".", ws, ".", th>>

\* f"ai.interaction.chat.error.{instance_key}" and f"{CHAT_ERROR}.{instance_key}"
ErrorSubject(key) == CHAT_ERROR \o <<".">> \o key

\* The two subject forms a stop for (ws, th) can be sent on.
StopSubjectDot(ws, th) == CHAT_STOP \o <<".", ws, ".", th>>
StopSubjectColon(ws, th) == CHAT_STOP \o <<".">> \o InstanceKey(ws, th)

\* '.'.join(msg.subject.split('.')[4:])
StopKey(subject) == JoinDot(DropParts(SplitDot(subject), 4))

(***************************************************************************)
(* Inputs.                                                                 *)
(***************************************************************************)
Workspaces == {"w1"}
Threads == {"t1", "t2"}
ProviderNames == {"OpenAI", "Anthropic"}

BaseRequest ==
    [ws |-> "w1", th |-> "t1", provider |-> "OpenAI", model |-> "gpt-x",
     messages |-> "ok"]

\* A CHAT_PROCESS payload: a well-formed request, or one with a single
\* defect.  "" stands for an absent (or empty) field; messages is "ok",
\* "empty", or "malformed" (an element that is no mapping).
RequestInputs ==
    { BaseRequest,
      [BaseRequest EXCEPT !.th = "t2"],
      [BaseRequest EXCEPT !.provider = "Anthropic"],
      [BaseRequest EXCEPT !.provider = "Cohere"],
      [BaseRequest EXCEPT !.provider = ""],
      [BaseRequest EXCEPT !.ws = ""],
      [BaseRequest EXCEPT !.th = ""],
      [BaseRequest EXCEPT !.model = ""],
      [BaseRequest EXCEPT !.messages = "empty"],
      [BaseRequest EXCEPT !.messages = "malformed"] }

\* event.delta of the k-th response.output_text.delta event of a request:
\* the k-th piece of the text "hello...", the second one possibly empty.
DeltaText(k) == IF k = 1 THEN "h" ELSE IF k = 2 THEN "e" ELSE "llo"
Deltas(k) == IF k = 2 THEN {"", DeltaText(k)} ELSE {DeltaText(k)}

\* response.error of a response.failed event (present = FALSE: no error
\* object; a code or type of NoneVal: the attribute is None).
NoError == [present |-> FALSE, message |-> NoneVal, code |-> NoneVal, type |-> NoneVal]
VendorErrors ==
    { NoError,
      [present |-> TRUE, message |-> "quota", code |-> "insufficient_quota",
       type |-> "billing_error"],
      [present |-> TRUE, message |-> "quota", code |-> NoneVal, type |-> NoneVal] }

\* response.usage of a response.completed event (set = FALSE: no usage).
NoUsage == [set |-> FALSE, promptTokens |-> 0, completionTokens |-> 0, totalTokens |-> 0]
VendorUsages == { [set |-> FALSE, input |-> 0, output |-> 0],
                  [set |-> TRUE, input |-> 2, output |-> 3] }

\* settings: the providers whose API key is configured.
Settings == { ProviderNames, {"Anthropic"} }

Keys == { InstanceKey(w, t) : w \in Workspaces, t \in Threads }

\* Subjects a CHAT_STOP message arrives on (the subscription is CHAT_STOP.>).
StopSubjects ==
    { StopSubjectDot(w, t) : w \in Workspaces, t \in Threads }
      \cup { StopSubjectColon(w, t) : w \in Workspaces, t \in Threads }

Slots == 1 .. MaxInFlight
ProvIds == 1 .. (MaxInFlight + Cardinality(Keys))

(***************************************************************************)
(* State.                                                                  *)
(***************************************************************************)
VARIABLES
    req,        \* per CHAT_PROCESS message: handler position and workflow state
    queue,      \* pending queue of the CHAT_PROCESS subscription (slots, FIFO)
    instances,  \* ProviderRegistry.instances: instance key -> provider
    heap,       \* the provider objects: instance_key, kind, should_stop
    apiKeys,    \* providers whose API key is configured (settings)
    tasks,      \* publish tasks created and not yet run (event loop, FIFO)
    wire,       \* messages handed to the NATS connection, in order
    last,       \* the last call made directly (registry, function): arguments, result
    limits,     \* the load explored: messages in flight, vendor events
    transport   \* the NatsService object and its connection

vars == <<req, queue, instances, heap, apiKeys, tasks, wire, last, limits, transport>>

\* A slot that holds no message.  pc is the handler's position; the
\* ProviderState fields keep their names; deltas, streamExit and stopDot
\* record what happened for the properties below: the vendor's text deltas,
\* how the stream node was left, and whether a stop arrived on the dotted
\* subject while the request was streaming; reports are the reports the
\* usage reporter emitted, accountingFailed tells that a report failed,
\* uploaded counts the image uploads that returned a result.
FreeSlot ==
    [pc |-> "free", data |-> BaseRequest, prov |-> 0,
     stream_active |-> FALSE, error |-> NoneVal, error_code |-> NoneVal,
     error_type |-> NoneVal, usage |-> NoUsage, image_usage |-> 0,
     response_id |-> NoneVal, raised |-> NoneVal, timedOut |-> FALSE,
     streamExit |-> NoneVal, deltas |-> <<>>, nOther |-> 0,
     nPartials |-> 0, pending |-> [set |-> FALSE, input |-> 0, output |-> 0],
     stopDot |-> FALSE, reports |-> <<>>, accountingFailed |-> FALSE,
     uploaded |-> 0,
     ai_request_received_at |-> NoTime, ai_request_finished_at |-> NoTime]

\* int(datetime.now().timestamp() * 1000) read when the stream node is left
\* by a request in state r: times are counted from the reading process()
\* took for ai_request_received_at, and the clock does not run backwards.
Readings(r) == r.ai_request_received_at .. (r.ai_request_received_at + MaxElapsed)

\* Positions at which the workflow task of process() exists and has not ended.
WorkflowPcs ==
    {"validate", "stream", "create", "loop", "upload_partial", "upload_final",
     "usage", "cleanup"}
\* Positions inside _stream_impl after the stream was opened.
StreamingPcs == {"loop", "upload_partial", "upload_final"}
\* Positions at which _handler_chat_process has started and not returned.
HandlerPcs == WorkflowPcs \cup {"returning"}

Range(f) == { f[x] : x \in DOMAIN f }

(***************************************************************************)
(* Messages.                                                               *)
(***************************************************************************)
\* A stream event on the receive subject (base.py _publish_stream_*,
\* _publish_image_*).  req names the request that published it.
StreamEvent(i, ws, th, kind, status, text, index) ==
    [subject |-> ReceiveSubject(ws, th), status |-> status, text |-> text,
     aiProvider |-> kind, aiChatThreadId |-> th, partialIndex |-> index,
     error |-> NoneVal, errorCode |-> NoneVal, errorType |-> NoneVal,
     instanceKey |-> <<>>, imageUrl |-> NoneVal, fileId |-> NoneVal, req |-> i]

\* The error event: errorCode and errorType are set only when truthy.
ErrorEvent(i, key, message, code, type) ==
    [subject |-> ErrorSubject(key), status |-> NoneVal, text |-> NoneVal,
     aiProvider |-> NoneVal, aiChatThreadId |-> NoneVal, partialIndex |-> -1,
     error |-> message, errorCode |-> code, errorType |-> type,
     instanceKey |-> key, imageUrl |-> NoneVal, fileId |-> NoneVal, req |-> i]

\* NatsService.publish: asyncio.create_task(self.nc.publish(...)).  Tasks
\* start in the order of their creation.
Publish(q, m) == Append(q, m)

\* The event loop has run enough publish tasks for the new ones to fit.
Room(q) == Len(q) <= MaxPending

(***************************************************************************)
(* The provider registry (providers/registry.py).                          *)
(***************************************************************************)
NoProvider == [instance_key |-> <<>>, kind |-> NoneVal, should_stop |-> FALSE]

\* A provider object nothing refers to any more.
Unreferenced(id, inst, rq) ==
    /\ id \notin Range(inst)
    /\ \A j \in Slots : rq[j].prov # id

\* The heap without the objects nothing refers to.
Collect(hp, inst, rq) ==
    [id \in ProvIds |-> IF Unreferenced(id, inst, rq) THEN NoProvider ELSE hp[id]]

\* The object a constructor call allocates.
FreshId(hp) == CHOOSE id \in ProvIds : hp[id] = NoProvider /\ \A o \in ProvIds : hp[o] = NoProvider => id <= o

\* OpenAIProvider.__init__ / AnthropicProvider.__init__: the API key must be set.
ConstructorError(name) ==
    IF name = "OpenAI" THEN "OPENAI_API_KEY environment variable is required"
    ELSE "ANTHROPIC_API_KEY environment variable is required"

\* A registry that constructs a provider without looking for the key first.
GetOrCreateNoReuse(inst, hp, keys, key, name) ==
    IF name \in ProviderNames /\ name \in keys
    THEN LET id == FreshId(hp) IN
         [ok |-> TRUE, id |-> id, err |-> NoneVal,
          instances |-> [k \in (DOMAIN inst) \cup {key} |-> IF k = key THEN id ELSE inst[k]],
          heap |-> [hp EXCEPT ![id] = [instance_key |-> key, kind |-> name,
                                       should_stop |-> FALSE]]]
    ELSE [ok |-> FALSE, id |-> 0, err |-> "Unsupported provider", instances |-> inst,
          heap |-> hp]

\* ProviderRegistry._get_or_create_instance: the provider returned and the
\* registry after the call, or the error raised.
GetOrCreateInstance(inst, hp, keys, key, name) ==
    IF key \in DOMAIN inst
    THEN [ok |-> TRUE, id |-> inst[key], err |-> NoneVal, instances |-> inst, heap |-> hp]
    ELSE IF name = "OpenAI" \/ name = "Anthropic"
    THEN IF name \in keys
         THEN LET id == FreshId(hp) IN
              [ok |-> TRUE, id |-> id, err |-> NoneVal,
               instances |-> [k \in (DOMAIN inst) \cup {key} |->
                                 IF k = key THEN id ELSE inst[k]],
               heap |-> [hp EXCEPT ![id] = [instance_key |-> key, kind |-> name,
                                            should_stop |-> FALSE]]]
         ELSE [ok |-> FALSE, id |-> 0, err |-> ConstructorError(name),
               instances |-> inst, heap |-> hp]
    ELSE [ok |-> FALSE, id |-> 0, err |-> "Unsupported provider", instances |-> inst,
          heap |-> hp]

\* A registry whose removal of a key empties the registry.
RemoveInstanceClear(inst, key) ==
    IF key \in DOMAIN inst THEN [k \in {} |-> inst[k]] ELSE inst

\* A registry whose removal forgets to delete the key.
RemoveInstanceKeep(inst, key) == inst

\* ProviderRegistry._remove_instance
RemoveInstance(inst, key) ==
    IF key \in DOMAIN inst THEN [k \in (DOMAIN inst) \ {key} |-> inst[k]] ELSE inst

(***************************************************************************)
(* Initial state: nothing received, empty registry, any set of configured  *)
(* API keys.                                                               *)
(***************************************************************************)
EmptyMap == [k \in {} |-> 0]
NoCall == [op |-> NoneVal, key |-> <<>>, name |-> NoneVal, ok |-> FALSE, id |-> 0,
           before |-> EmptyMap, heapBefore |-> [id \in ProvIds |-> NoProvider]]

\* The subscriptions the service declares: CHAT_PROCESS in the queue group
\* llm-workers, and CHAT_STOP.> .
Declared ==
    << [subject |-> CHAT_PROCESS, queue |-> "llm-workers"],
       [subject |-> CHAT_STOP \o <<".", ">">>, queue |-> NoneVal] >>

\* NatsService.__init__: no connection, nothing under way.  ncId numbers the
\* connection objects nats.connect returned (0: self.nc is None), ncClosed is
\* nc.is_closed, subs the subscriptions registered on nc.  connectPc is the
\* position of the running connect() ("idle": none), connectNext and cbNext
\* the next declared subscription of the _init_subscriptions loop run by
\* connect() and by the reconnected callback (cbNext 0: not running).
\* handling[n] is the instance key of the CHAT_PROCESS message the message
\* loop of subs[n] is handling (<<>>: none).
\* failures, closes and reconnects count the events of the environment;
\* closedAt is the connection closed last, closedPending tells that no
\* connect attempt started since.  msgs holds one record per publish()
\* call, errors counts the lines publish() logged with err().
\* subscriptions is the dict self._subscriptions (its keys), which no method
\* adds to.  attempts counts the connect() calls that are past the guard and
\* not yet through `finally`, timers the reconnect tasks that are asleep;
\* reconnect_timer tells that the task self._reconnect_timer refers to is
\* one of them.
NewTransport ==
    [ncId |-> 0, ncClosed |-> FALSE, subs |-> <<>>, handling |-> <<>>,
     is_connecting |-> FALSE, subscriptions_initialized |-> FALSE,
     reconnect_timer |-> FALSE,
     connectPc |-> "idle", connectNext |-> 0, cbNext |-> 0,
     failures |-> 0, closes |-> 0, reconnects |-> 0,
     closedAt |-> 0, closedPending |-> FALSE,
     msgs |-> <<>>, errors |-> 0, subscriptions |-> {},
     attempts |-> 0, timers |-> 0]

Init ==
    /\ transport = NewTransport
    /\ req = [i \in Slots |-> FreeSlot]
    /\ queue = <<>>
    /\ instances = EmptyMap
    /\ heap = [id \in ProvIds |-> NoProvider]
    /\ apiKeys \in Settings
    /\ tasks = <<>>
    /\ wire = <<>>
    /\ last = NoCall
    /\ limits = [inFlight |-> MaxInFlight, deltas |-> MaxDeltas, other |-> MaxOther]

(***************************************************************************)
(* The CHAT_PROCESS handler and the workflow of BaseLLMProvider.process.   *)
(***************************************************************************)
\* The events of request i among the messages ms with status st.
EventsOf(ms, i, st) == SelectSeq(ms, LAMBDA m : m.req = i /\ m.status = st)

\* STREAMING events request i has published so far.
Chunks(i) == Len(EventsOf(wire \o tasks, i, "STREAMING"))

\* get_provider_name() of the provider that runs request i.
Kind(i) == heap[req[i].prov].kind

StartEvent(i) ==
    StreamEvent(i, req[i].data.ws, req[i].data.th, Kind(i), "START_STREAM", NoneVal, -1)
ChunkEvent(i, text) ==
    StreamEvent(i, req[i].data.ws, req[i].data.th, Kind(i), "STREAMING", text, -1)
EndEvent(i) ==
    StreamEvent(i, req[i].data.ws, req[i].data.th, Kind(i), "END_STREAM", "", -1)
ImagePartialEvent(i, index, up) ==
    [StreamEvent(i, req[i].data.ws, req[i].data.th, Kind(i), "IMAGE_PARTIAL", NoneVal,
                 index)
       EXCEPT !.imageUrl = up.url, !.fileId = up.fileId]
ImageCompleteEvent(i, up) ==
    [StreamEvent(i, req[i].data.ws, req[i].data.th, Kind(i), "IMAGE_COMPLETE", NoneVal,
                 -1)
       EXCEPT !.imageUrl = up.url, !.fileId = up.fileId]

\* An error path that publishes nothing.
PublishErrorDropped(q, i, message, code, type) == q

\* BaseLLMProvider._publish_error: `if error_code:` and `if error_type:`
\* keep the two fields only when they are set.
PublishError(q, i, message, code, type) ==
    Publish(q, ErrorEvent(i, InstanceKey(req[i].data.ws, req[i].data.th),
                          message, code, type))

\* A message loop that starts the callback of every message at once.
DispatchAlways(rq) == TRUE

\* The subscription's message loop takes the next CHAT_PROCESS message only
\* when the callback of the previous one has returned.
DispatchReady(rq) == \A j \in Slots : rq[j].pc \notin HandlerPcs

Finished(rq) == { j \in Slots : rq[j].pc = "done" }

\* A CHAT_PROCESS message reaches the subscription's pending queue.  Nothing
\* reads its payload before the handler runs, so the payload is drawn there.
Arrive ==
    /\ \E f \in Slots : req[f].pc = "free"
    /\ Cardinality({ j \in Slots : req[j].pc # "free" }) < limits.inFlight
    /\ LET i == CHOOSE f \in Slots :
                   req[f].pc = "free" /\ \A o \in Slots : req[o].pc = "free" => f <= o
       IN /\ req' = [req EXCEPT ![i].pc = "queued"]
          /\ queue' = Append(queue, i)
    /\ UNCHANGED <<instances, heap, apiKeys, limits, transport, tasks, wire, last>>

\* _handler_chat_process up to `await provider.process(data)`, and process()
\* up to the start of the workflow task.
HandlerChatProcess(d) ==
    /\ queue # <<>>
    /\ DispatchReady(req)
    /\ Cardinality(Finished(req)) <= MaxFinished
    /\ LET i == Head(queue)
           key == InstanceKey(d.ws, d.th)
           g == GetOrCreateInstance(instances, heap, apiKeys, key, d.provider)
       IN /\ queue' = Tail(queue)
          /\ IF d.ws = "" \/ d.th = "" \/ d.provider = ""
             THEN /\ req' = [req EXCEPT ![i].pc = "done", ![i].data = d]
                  /\ UNCHANGED <<instances, heap, tasks>>
             ELSE IF ~g.ok
             THEN /\ req' = [req EXCEPT ![i].pc = "done", ![i].data = d,
                                       ![i].raised = g.err]
                  /\ tasks' = Publish(tasks, ErrorEvent(i, key, g.err, NoneVal, NoneVal))
                  /\ UNCHANGED <<instances, heap>>
             ELSE /\ req' = [req EXCEPT ![i].pc = "validate", ![i].data = d,
                                       ![i].prov = g.id,
                                       ![i].ai_request_received_at = 0]
                  /\ instances' = g.instances
                  /\ heap' = g.heap
                  /\ UNCHANGED tasks
    /\ Room(tasks')
    /\ UNCHANGED <<apiKeys, limits, transport, wire, last>>

\* BaseLLMProvider._validate_request: the message of the ValueError, or NoneVal.
ValidationError(d) ==
    IF d.model = "" THEN "model_version is required"
    ELSE IF d.messages = "empty" THEN "messages list is required"
    ELSE IF d.ws = "" THEN "workspace_id is required"
    ELSE IF d.th = "" THEN "ai_chat_thread_id is required"
    ELSE NoneVal

\* The validate_request node.  An exception ends the workflow task.
ValidateRequest(i) ==
    /\ req[i].pc = "validate"
    /\ LET e == ValidationError(req[i].data)
       IN req' = IF e # NoneVal
                 THEN [req EXCEPT ![i].pc = "returning", ![i].raised = e]
                 ELSE [req EXCEPT ![i].pc = "stream"]
    /\ UNCHANGED <<queue, instances, heap, apiKeys, limits, transport, tasks, wire, last>>

\* An exception leaves _stream_impl: `except Exception` of _stream_tokens
\* records it, publishes the stream end and re-raises; `finally` resets
\* stream_active and records the time t.
StreamFailed(r, msg, t) ==
    [r EXCEPT !.error = msg, !.raised = msg, !.stream_active = FALSE,
              !.streamExit = "exception", !.pc = "returning",
              !.ai_request_finished_at = t]

\* The stream_tokens node up to the vendor call: _stream_tokens, then
\* _stream_impl until `await self.client.responses.create`.  The Anthropic
\* adapter reads state['document_id'], a key the state never has.
StreamTokens(i) ==
    /\ req[i].pc = "stream"
    /\ IF Kind(i) = "Anthropic"
       THEN /\ \E t \in Readings(req[i]) :
                   req' = [req EXCEPT ![i] = StreamFailed(@, "'document_id'", t)]
            /\ tasks' = Publish(tasks, EndEvent(i))
       ELSE IF req[i].data.messages = "malformed"
       THEN /\ \E t \in Readings(req[i]) :
                   req' = [req EXCEPT ![i] =
                              StreamFailed(@, "object has no attribute 'get'", t)]
            /\ tasks' = Publish(tasks, EndEvent(i))
       ELSE /\ req' = [req EXCEPT ![i].pc = "create", ![i].stream_active = TRUE]
            /\ tasks' = Publish(tasks, StartEvent(i))
    /\ Room(tasks')
    /\ UNCHANGED <<queue, instances, heap, apiKeys, limits, transport, wire, last>>

\* client.responses.create returns the stream, or raises.
VendorCreate(i, ok) ==
    /\ req[i].pc = "create"
    /\ IF ok
       THEN /\ req' = [req EXCEPT ![i].pc = "loop"]
            /\ UNCHANGED tasks
       ELSE /\ \E t \in Readings(req[i]) :
                   req' = [req EXCEPT ![i] = StreamFailed(@, "vendor request failed", t)]
            /\ tasks' = Publish(tasks, EndEvent(i))
    /\ Room(tasks')
    /\ UNCHANGED <<queue, instances, heap, apiKeys, limits, transport, wire, last>>

\* The events the vendor stream may deliver next to a request in state r.
BlankEvent ==
    [type |-> NoneVal, delta |-> "", b64 |-> FALSE,
     usage |-> [set |-> FALSE, input |-> 0, output |-> 0], images |-> 0, err |-> NoError]
RECURSIVE DeltasSeen(_, _)
DeltasSeen(rq, n) == IF n = 0 THEN 0 ELSE Len(rq[n].deltas) + DeltasSeen(rq, n - 1)
RECURSIVE OthersSeen(_, _)
OthersSeen(rq, n) == IF n = 0 THEN 0 ELSE rq[n].nOther + OthersSeen(rq, n - 1)

VendorEvents(rq, i) ==
    (IF DeltasSeen(rq, MaxInFlight) < limits.deltas
     THEN { [BlankEvent EXCEPT !.type = "response.output_text.delta", !.delta = t] :
               t \in Deltas(Len(rq[i].deltas) + 1) }
     ELSE {})
    \cup
    (IF OthersSeen(rq, MaxInFlight) < limits.other
     THEN { [BlankEvent EXCEPT !.type = "response.image_generation_call.partial_image",
                               !.b64 = b] : b \in BOOLEAN }
          \cup { [BlankEvent EXCEPT !.type = "response.completed", !.usage = u,
                                    !.images = n] : u \in VendorUsages, n \in 0 .. 1 }
          \cup { [BlankEvent EXCEPT !.type = "response.failed", !.err = x] :
                    x \in VendorErrors }
     ELSE {})

\* What the vendor has delivered, whatever the adapter does with it.
Received(r, e) ==
    IF e.type = "response.output_text.delta"
    THEN [r EXCEPT !.deltas = Append(@, e.delta)]
    ELSE [r EXCEPT !.nOther = @ + 1]

\* state['usage'] as the response.completed branch builds it.
UsageOf(u) ==
    IF u.set
    THEN [set |-> TRUE, promptTokens |-> u.input, completionTokens |-> u.output,
          totalTokens |-> u.input + u.output]
    ELSE NoUsage

\* str(RuntimeError(f"OpenAI Responses API error: {error_message}"))
VendorErrorMessage(m) == "OpenAI Responses API error: " \o m

\* One iteration of `async for event in stream`: the should_stop check,
\* then the match on event.type, up to the next await that suspends.
VendorEvent(i, e) ==
    /\ req[i].pc = "loop"
    /\ e \in VendorEvents(req, i)
    /\ LET r == Received(req[i], e) IN
       IF heap[r.prov].should_stop
       THEN \* break; publish stream end; return state
            /\ \E t \in Readings(r) :
                   req' = [req EXCEPT ![i] =
                              [r EXCEPT !.pc = "usage", !.stream_active = FALSE,
                                        !.streamExit = "stopped",
                                        !.ai_request_finished_at = t]]
            /\ tasks' = Publish(tasks, EndEvent(i))
       ELSE IF e.type = "response.output_text.delta"
       THEN /\ req' = [req EXCEPT ![i] = r]
            /\ tasks' = IF e.delta # "" THEN Publish(tasks, ChunkEvent(i, e.delta))
                                         ELSE tasks
       ELSE IF e.type = "response.image_generation_call.partial_image"
       THEN /\ req' = [req EXCEPT ![i] =
                          IF e.b64
                          THEN [r EXCEPT !.pc = "upload_partial", !.nPartials = @ + 1]
                          ELSE [r EXCEPT !.nPartials = @ + 1]]
            /\ UNCHANGED tasks
       ELSE IF e.type = "response.completed"
       THEN /\ req' = [req EXCEPT ![i] =
                          IF e.images > 0
                          THEN [r EXCEPT !.response_id = "resp", !.pc = "upload_final",
                                         !.pending = e.usage]
                          ELSE [r EXCEPT !.response_id = "resp",
                                         !.usage = IF e.usage.set THEN UsageOf(e.usage)
                                                                  ELSE @]]
            /\ UNCHANGED tasks
       ELSE \* response.failed
            IF e.err.present
            THEN /\ \E t \in Readings(r) :
                        req' = [req EXCEPT ![i] =
                                   StreamFailed([r EXCEPT !.error_code = e.err.code,
                                                          !.error_type = e.err.type,
                                                          !.response_id = "resp"],
                                                VendorErrorMessage(e.err.message), t)]
                 /\ tasks' = Publish(PublishError(tasks, i, e.err.message, e.err.code,
                                                  e.err.type),
                                     EndEvent(i))
            ELSE /\ req' = [req EXCEPT ![i] = r]
                 /\ UNCHANGED tasks
    /\ Room(tasks')
    /\ UNCHANGED <<queue, instances, heap, apiKeys, limits, transport, wire, last>>

\* What the image store answers to an upload: HTTP 200 with the stored
\* file, another status, or no answer at all (network error).
UploadOutcomes == {"200", "500", "network error"}
NoUpload == [ok |-> FALSE, fileId |-> NoneVal, url |-> NoneVal]

\* _upload_image_to_storage: response.json() on status 200, None on any
\* other status and on an exception.
UploadImageToStorage(o) ==
    IF o = "200" THEN [ok |-> TRUE, fileId |-> "f1", url |-> "u1"] ELSE NoUpload

\* A _publish_image_partial that publishes whatever the upload returned.
UploadPartialAlways(i, o) ==
    /\ req[i].pc = "upload_partial"
    /\ LET up == UploadImageToStorage(o) IN
         /\ req' = [req EXCEPT ![i].pc = "loop",
                               ![i].uploaded = IF up.ok THEN @ + 1 ELSE @]
         /\ tasks' = Publish(tasks, ImagePartialEvent(i, req[i].nPartials - 1, up))
    /\ Room(tasks')
    /\ UNCHANGED <<queue, instances, heap, apiKeys, limits, transport, wire, last>>

\* _publish_image_partial after its upload: published only when the upload
\* returned a result.
UploadPartialDone(i, o) ==
    /\ req[i].pc = "upload_partial"
    /\ LET up == UploadImageToStorage(o) IN
         /\ req' = [req EXCEPT ![i].pc = "loop",
                               ![i].uploaded = IF up.ok THEN @ + 1 ELSE @]
         /\ tasks' = IF up.ok
                     THEN Publish(tasks, ImagePartialEvent(i, req[i].nPartials - 1, up))
                     ELSE tasks
    /\ Room(tasks')
    /\ UNCHANGED <<queue, instances, heap, apiKeys, limits, transport, wire, last>>

\* _handle_image_generation_output after the upload of the completed image,
\* then the usage extraction of the response.completed branch.
UploadFinalDone(i, o) ==
    /\ req[i].pc = "upload_final"
    /\ LET up == UploadImageToStorage(o) IN
         /\ req' = [req EXCEPT ![i].pc = "loop", ![i].image_usage = 1,
                               ![i].usage = IF req[i].pending.set
                                            THEN UsageOf(req[i].pending) ELSE @,
                               ![i].pending = FreeSlot.pending,
                               ![i].uploaded = IF up.ok THEN @ + 1 ELSE @]
         /\ tasks' = IF up.ok THEN Publish(tasks, ImageCompleteEvent(i, up)) ELSE tasks
    /\ Room(tasks')
    /\ UNCHANGED <<queue, instances, heap, apiKeys, limits, transport, wire, last>>

\* The vendor stream ends: publish stream end, return state.
VendorStreamEnd(i) ==
    /\ req[i].pc = "loop"
    /\ \E t \in Readings(req[i]) :
           req' = [req EXCEPT ![i].pc = "usage", ![i].stream_active = FALSE,
                              ![i].streamExit = "completed",
                              ![i].ai_request_finished_at = t]
    /\ tasks' = Publish(tasks, EndEvent(i))
    /\ Room(tasks')
    /\ UNCHANGED <<queue, instances, heap, apiKeys, limits, transport, wire, last>>

\* An exception path of _stream_tokens that publishes no stream end.
VendorStreamErrorNoEnd(i) ==
    /\ req[i].pc = "loop"
    /\ \E t \in Readings(req[i]) :
           req' = [req EXCEPT ![i] = StreamFailed(@, "vendor stream failed", t)]
    /\ UNCHANGED <<queue, instances, heap, apiKeys, limits, transport, tasks, wire, last>>

\* The vendor stream raises while the adapter waits for the next event.
VendorStreamError(i) ==
    /\ req[i].pc = "loop"
    /\ \E t \in Readings(req[i]) :
           req' = [req EXCEPT ![i] = StreamFailed(@, "vendor stream failed", t)]
    /\ tasks' = Publish(tasks, EndEvent(i))
    /\ Room(tasks')
    /\ UNCHANGED <<queue, instances, heap, apiKeys, limits, transport, wire, last>>

\* A report of request r is attempted and fails.
ReportFails(r, okTokens, okImage) ==
    /\ r.error = NoneVal
    /\ (r.usage.set /\ ~okTokens) \/ (r.image_usage > 0 /\ ~okImage)

\* A calculate_usage node that lets the failure of a report escape.
CalculateUsageFatal(i, okTokens, okImage) ==
    /\ req[i].pc = "usage"
    /\ okTokens \/ (req[i].error = NoneVal /\ req[i].usage.set)
    /\ okImage \/ (req[i].error = NoneVal /\ req[i].image_usage > 0)
    /\ req' = IF ReportFails(req[i], okTokens, okImage)
              THEN [req EXCEPT ![i].pc = "returning", ![i].accountingFailed = TRUE,
                               ![i].raised = "report failed"]
              ELSE [req EXCEPT ![i].pc = "cleanup"]
    /\ UNCHANGED <<queue, instances, heap, apiKeys, limits, transport, tasks, wire, last>>

\* The calculate_usage node: nothing is reported when state['error'] is
\* set; else one report for the tokens when state['usage'] is not empty,
\* and one for the image when state['image_usage'] is set.  A report that
\* fails is logged: it emits nothing and raises nothing.
CalculateUsage(i, okTokens, okImage) ==
    /\ req[i].pc = "usage"
    /\ okTokens \/ (req[i].error = NoneVal /\ req[i].usage.set)
    /\ okImage \/ (req[i].error = NoneVal /\ req[i].image_usage > 0)
    /\ LET r == req[i]
           t == IF r.usage.set /\ okTokens THEN <<"tokens">> ELSE <<>>
           g == IF r.image_usage > 0 /\ okImage THEN <<"image">> ELSE <<>>
       IN req' = [req EXCEPT ![i].pc = "cleanup",
                             ![i].reports = IF r.error # NoneVal THEN @ ELSE @ \o t \o g,
                             ![i].accountingFailed = ReportFails(r, okTokens, okImage)]
    /\ UNCHANGED <<queue, instances, heap, apiKeys, limits, transport, tasks, wire, last>>

\* The cleanup node: self.should_stop = False.  The workflow task ends.
Cleanup(i) ==
    /\ req[i].pc = "cleanup"
    /\ req' = [req EXCEPT ![i].pc = "returning"]
    /\ heap' = [heap EXCEPT ![req[i].prov].should_stop = FALSE]
    /\ UNCHANGED <<queue, instances, apiKeys, limits, transport, tasks, wire, last>>

\* A cancellation that skips the `finally` of _stream_tokens.
TimeoutNoFinally(i) ==
    /\ req[i].pc \in WorkflowPcs
    /\ req' = [req EXCEPT ![i].pc = "returning", ![i].timedOut = TRUE,
                          ![i].streamExit =
                              IF req[i].pc \in StreamingPcs \cup {"create"}
                              THEN "cancelled" ELSE @]
    /\ UNCHANGED <<queue, instances, heap, apiKeys, limits, transport, tasks, wire, last>>

\* asyncio.wait_for expires: the workflow task is cancelled where it waits.
\* CancelledError is no Exception, so only the `finally` of _stream_tokens
\* runs when the task was inside the stream node.
Timeout(i) ==
    /\ req[i].pc \in WorkflowPcs
    /\ \E t \in Readings(req[i]) :
           req' = IF req[i].pc \in StreamingPcs \cup {"create"}
                  THEN [req EXCEPT ![i].pc = "returning", ![i].timedOut = TRUE,
                                   ![i].stream_active = FALSE,
                                   ![i].streamExit = "cancelled",
                                   ![i].ai_request_finished_at = t]
                  ELSE [req EXCEPT ![i].pc = "returning", ![i].timedOut = TRUE]
    /\ UNCHANGED <<queue, instances, heap, apiKeys, limits, transport, tasks, wire, last>>

\* settings.LLM_TIMEOUT_SECONDS
LLM_TIMEOUT_SECONDS == 1200

\* f"... timeout exceeded ({settings.LLM_TIMEOUT_SECONDS // 60} minutes)"
CircuitBreakerMessage ==
    "Circuit breaker triggered: Processing timeout exceeded ("
        \o ToString(LLM_TIMEOUT_SECONDS \div 60) \o " minutes)"

\* process() after the workflow task has ended (its two except clauses),
\* then the handler's registry._remove_instance(instance_key).
ProcessReturn(i) ==
    /\ req[i].pc = "returning"
    /\ req' = [req EXCEPT ![i].pc = "done"]
    /\ tasks' = IF req[i].timedOut
                THEN PublishError(tasks, i, CircuitBreakerMessage, NoneVal, NoneVal)
                ELSE IF req[i].raised # NoneVal
                THEN PublishError(tasks, i, req[i].raised, NoneVal, NoneVal)
                ELSE tasks
    /\ instances' = RemoveInstance(instances,
                                   InstanceKey(req[i].data.ws, req[i].data.th))
    /\ Room(tasks')
    /\ UNCHANGED <<queue, heap, apiKeys, limits, transport, wire, last>>

(***************************************************************************)
(* The CHAT_STOP handler, the publish tasks, the subscribers.              *)
(***************************************************************************)
\* _handler_chat_stop with BaseLLMProvider.stop: stream_task is never
\* assigned, so stop() only sets the flag.
HandlerChatStop(subject) ==
    /\ LET key == StopKey(subject) IN
         heap' = IF key \in DOMAIN instances
                 THEN [heap EXCEPT ![instances[key]].should_stop = TRUE]
                 ELSE heap
    /\ req' = [i \in Slots |->
                 LET r == req[i]
                     streaming == r.pc \in StreamingPcs
                 IN [r EXCEPT
                       !.stopDot = @ \/ (streaming /\ subject =
                                              StopSubjectDot(r.data.ws, r.data.th))]]
    /\ UNCHANGED <<queue, instances, apiKeys, limits, transport, tasks, wire, last>>

\* The event loop runs the oldest publish task: nc.publish appends the
\* message to the connection's outgoing buffer.  (NextTaskNewest: an event
\* loop that runs the newest task first.)
NextTaskNewest(q) == Len(q)
NextTask(q) == 1
RunPublishTask ==
    /\ tasks # <<>>
    /\ LET n == NextTask(tasks) IN
         /\ wire' = Append(wire, tasks[n])
         /\ tasks' = SubSeq(tasks, 1, n - 1) \o SubSeq(tasks, n + 1, Len(tasks))
    /\ UNCHANGED <<req, queue, instances, heap, apiKeys, limits, transport, last>>

\* A finished request whose messages all reached the wire is forgotten,
\* with its messages.
Forget(i) ==
    /\ req[i].pc = "done"
    /\ \A n \in 1 .. Len(tasks) : tasks[n].req # i
    /\ req' = [req EXCEPT ![i] = FreeSlot]
    /\ wire' = SelectSeq(wire, LAMBDA m : m.req # i)
    /\ heap' = Collect(heap, instances, req')
    /\ UNCHANGED <<queue, instances, apiKeys, limits, transport, tasks, last>>

Next ==
    \/ Arrive
    \/ \E d \in RequestInputs : HandlerChatProcess(d)
    \/ \E i \in Slots : ValidateRequest(i)
    \/ \E i \in Slots : StreamTokens(i)
    \/ \E i \in Slots, ok \in BOOLEAN : VendorCreate(i, ok)
    \/ \E i \in Slots : \E e \in VendorEvents(req, i) : VendorEvent(i, e)
    \/ \E i \in Slots, o \in UploadOutcomes : UploadPartialDone(i, o)
    \/ \E i \in Slots, o \in UploadOutcomes : UploadFinalDone(i, o)
    \/ \E i \in Slots : VendorStreamEnd(i)
    \/ \E i \in Slots : VendorStreamError(i)
    \/ \E i \in Slots, okTokens \in BOOLEAN, okImage \in BOOLEAN :
          CalculateUsage(i, okTokens, okImage)
    \/ \E i \in Slots : Cleanup(i)
    \/ \E i \in Slots : Timeout(i)
    \/ \E i \in Slots : ProcessReturn(i)
    \/ \E s \in StopSubjects : HandlerChatStop(s)
    \/ RunPublishTask
    \/ \E i \in Slots : Forget(i)

Spec == Init /\ [][Next]_vars

\* The same service under the load of the image scenarios: one request at a
\* time, to which the vendor sends up to MaxImageEvents image events.
InitImages ==
    /\ transport = NewTransport
    /\ req = [i \in Slots |-> FreeSlot]
    /\ queue = <<>>
    /\ instances = EmptyMap
    /\ heap = [id \in ProvIds |-> NoProvider]
    /\ apiKeys \in Settings
    /\ tasks = <<>>
    /\ wire = <<>>
    /\ last = NoCall
    /\ limits = [inFlight |-> 1, deltas |-> MaxImageDeltas, other |-> MaxImageEvents]

SpecImages == InitImages /\ [][Next]_vars

(***************************************************************************)
(* The registry on its own: _get_or_create_instance and _remove_instance   *)
(* called with any key and any provider name, in any order.  last records  *)
(* the call and the registry it found.                                     *)
(***************************************************************************)
RegistryNames == ProviderNames \cup {"Cohere"}

RegGetOrCreate(key, name) ==
    /\ LET g == GetOrCreateInstance(instances, heap, apiKeys, key, name)
       IN /\ instances' = g.instances
          /\ heap' = g.heap
          /\ last' = [op |-> "getOrCreate", key |-> key, name |-> name, ok |-> g.ok,
                      id |-> g.id, before |-> instances, heapBefore |-> heap]
    /\ UNCHANGED <<req, queue, apiKeys, limits, transport, tasks, wire>>

RegRemove(key) ==
    /\ instances' = RemoveInstance(instances, key)
    /\ heap' = Collect(heap, instances', req)
    /\ last' = [op |-> "remove", key |-> key, name |-> NoneVal, ok |-> TRUE, id |-> 0,
                before |-> instances, heapBefore |-> heap]
    /\ UNCHANGED <<req, queue, apiKeys, limits, transport, tasks, wire>>

\* BaseLLMProvider.stop() on a registered provider.
RegStop(key) ==
    /\ key \in DOMAIN instances
    /\ heap' = [heap EXCEPT ![instances[key]].should_stop = TRUE]
    /\ last' = [op |-> "stop", key |-> key, name |-> NoneVal, ok |-> TRUE,
                id |-> instances[key], before |-> instances, heapBefore |-> heap]
    /\ UNCHANGED <<req, queue, instances, apiKeys, limits, transport, tasks, wire>>

NextRegistry ==
    \/ \E key \in Keys, name \in RegistryNames : RegGetOrCreate(key, name)
    \/ \E key \in Keys : RegRemove(key)
    \/ \E key \in Keys : RegStop(key)

SpecRegistry == Init /\ [][NextRegistry]_vars

(***************************************************************************)
(* The transport: NatsService.connect, the reconnect timer, the            *)
(* installation of the declared subscriptions and the connection           *)
(* callbacks.  A step runs a coroutine from one suspension to the next:    *)
(* nats.connect and every nc.subscribe suspend.                            *)
(***************************************************************************)
service == <<req, queue, instances, heap, apiKeys, tasks, wire, last, limits>>

\* is_connected()
IsConnected(t) == t.ncId # 0 /\ ~t.ncClosed

\* subscribe(): None without a connection; nc.subscribe raises on a closed
\* connection, which _init_subscriptions logs and skips; otherwise the
\* subscription is registered on nc.
Subscribe(t, k) ==
    IF t.ncId = 0 \/ t.ncClosed
    THEN t
    ELSE [t EXCEPT !.subs = Append(@, Declared[k]), !.handling = Append(@, <<>>)]

\* connect() up to `await asyncio.wait_for(nats.connect(...))`.
ConnectBegin(t) ==
    IF t.is_connecting \/ IsConnected(t)
    THEN t
    ELSE [t EXCEPT !.is_connecting = TRUE, !.connectPc = "dialing",
                   !.attempts = @ + 1,
                   !.closedPending = FALSE]

\* A caller (NatsService.init, the application) calls connect().
Connect ==
    /\ ~transport.is_connecting
    /\ ~IsConnected(transport)
    /\ transport' = ConnectBegin(transport)
    /\ UNCHANGED service

\* The task made by _schedule_reconnect wakes up and calls connect().
ReconnectTask ==
    /\ transport.reconnect_timer
    /\ transport' = [ConnectBegin(transport) EXCEPT !.reconnect_timer = FALSE,
                                                    !.timers = @ - 1]
    /\ UNCHANGED service

\* A connect() whose failure schedules nothing.
ConnectFailedNoRetry ==
    /\ transport.connectPc = "dialing"
    /\ transport.failures < MaxConnectFailures
    /\ transport' = [transport EXCEPT !.failures = @ + 1, !.attempts = @ - 1,
                                      !.is_connecting = FALSE, !.connectPc = "idle"]
    /\ UNCHANGED service

\* A _schedule_reconnect that leaves the task scheduled before alone.
ScheduleReconnectNoCancel(t) ==
    [t EXCEPT !.timers = @ + 1, !.reconnect_timer = TRUE]

\* _schedule_reconnect: the task self._reconnect_timer refers to is
\* cancelled and a new one is created.
ScheduleReconnect(t) ==
    [t EXCEPT !.timers = (IF t.reconnect_timer THEN @ - 1 ELSE @) + 1,
              !.reconnect_timer = TRUE]

\* nats.connect times out or raises: connect() schedules a reconnect and
\* returns.
ConnectFailed ==
    /\ transport.connectPc = "dialing"
    /\ transport.failures < MaxConnectFailures
    /\ transport' = [ScheduleReconnect(transport)
                        EXCEPT !.failures = @ + 1, !.attempts = @ - 1,
                               !.is_connecting = FALSE, !.connectPc = "idle"]
    /\ UNCHANGED service

\* nats.connect returns a new connection: connect() stores it and enters
\* _init_subscriptions, which returns at once if the flag is set and
\* otherwise runs to the suspension of its first subscribe.
Connected ==
    /\ transport.connectPc = "dialing"
    /\ LET t == [transport EXCEPT !.ncId = @ + 1, !.ncClosed = FALSE, !.subs = <<>>,
                                  !.handling = <<>>]
       IN transport' =
              IF t.subscriptions_initialized
              THEN [t EXCEPT !.is_connecting = FALSE, !.connectPc = "idle",
                             !.attempts = @ - 1]
              ELSE [Subscribe(t, 1) EXCEPT !.connectPc = "install", !.connectNext = 2]
    /\ UNCHANGED service

\* The _init_subscriptions loop of connect() resumes: the next subscribe, or
\* the end of the loop, which sets the flag whatever the subscribes did.
InitSubscriptionsStep ==
    /\ transport.connectPc = "install"
    /\ transport' =
           IF transport.connectNext <= Len(Declared)
           THEN [Subscribe(transport, transport.connectNext)
                   EXCEPT !.connectNext = @ + 1]
           ELSE [transport EXCEPT !.subscriptions_initialized = TRUE,
                                  !.is_connecting = FALSE, !.connectPc = "idle",
                                  !.connectNext = 0, !.attempts = @ - 1]
    /\ UNCHANGED service

\* The connection drops and the library reconnects it, resubscribing what
\* was registered; _reconnected_callback then runs _init_subscriptions if
\* the flag is not set.
ReconnectedCallback ==
    /\ IsConnected(transport)
    /\ transport.cbNext = 0
    /\ transport.reconnects < MaxReconnects
    /\ LET t == [transport EXCEPT !.reconnects = @ + 1]
       IN transport' = IF t.subscriptions_initialized
                       THEN t
                       ELSE [Subscribe(t, 1) EXCEPT !.cbNext = 2]
    /\ UNCHANGED service

\* The _init_subscriptions loop of the reconnected callback resumes.
CallbackInitStep ==
    /\ transport.cbNext # 0
    /\ transport' =
           IF transport.cbNext <= Len(Declared)
           THEN [Subscribe(transport, transport.cbNext) EXCEPT !.cbNext = @ + 1]
           ELSE [transport EXCEPT !.subscriptions_initialized = TRUE, !.cbNext = 0]
    /\ UNCHANGED service

\* The connection is closed for good (nc.close(), or the library giving
\* up): its subscriptions and their message loops are gone, and
\* _closed_callback resets the flag.
ClosedCallback ==
    /\ IsConnected(transport)
    /\ transport.closes < MaxCloses
    /\ transport' = [transport EXCEPT !.ncClosed = TRUE, !.subs = <<>>,
                                      !.handling = <<>>,
                                      !.subscriptions_initialized = FALSE,
                                      !.closes = @ + 1,
                                      !.closedAt = transport.ncId,
                                      !.closedPending = TRUE]
    /\ UNCHANGED service

\* The message loop of the CHAT_PROCESS subscription subs[n] takes a message
\* for instance key `key` and awaits message_handler; the loop of a
\* subscription runs one handler at a time.
MessageHandler(n, key) ==
    /\ IsConnected(transport)
    /\ n \in 1 .. Len(transport.subs)
    /\ transport.subs[n].subject = CHAT_PROCESS
    /\ transport.handling[n] = <<>>
    /\ transport' = [transport EXCEPT !.handling[n] = key]
    /\ UNCHANGED service

\* message_handler returns: the handler is done with its message.
MessageHandlerReturns(n) ==
    /\ n \in 1 .. Len(transport.handling)
    /\ transport.handling[n] # <<>>
    /\ transport' = [transport EXCEPT !.handling[n] = <<>>]
    /\ UNCHANGED service

NextTransport ==
    \/ \E n \in 1 .. Len(transport.subs), key \in Keys : MessageHandler(n, key)
    \/ \E n \in 1 .. Len(transport.subs) : MessageHandlerReturns(n)
    \/ Connect
    \/ ReconnectTask
    \/ ConnectFailed
    \/ Connected
    \/ InitSubscriptionsStep
    \/ ReconnectedCallback
    \/ CallbackInitStep
    \/ ClosedCallback

SpecTransport == Init /\ [][NextTransport]_vars

\* The connection object numbered c is closed: connect() replaces self.nc
\* only by a new connection when the old one is closed.
ConnClosed(t, c) == c < t.ncId \/ (c = t.ncId /\ t.ncClosed)

\* Where the transport is when publish() is called.
ConnState(t) ==
    IF t.ncId = 0 THEN "never connected"
    ELSE IF t.ncClosed THEN "closed" ELSE "connected"

\* A publish task that looks up self.nc when it runs.
TransportPublishTaskLate(n) ==
    /\ n \in 1 .. Len(transport.msgs)
    /\ transport.msgs[n].state = "task"
    /\ transport' =
           [transport EXCEPT !.msgs[n] =
               IF ConnClosed(transport, transport.ncId)
               THEN [@ EXCEPT !.state = "failed"]
               ELSE [@ EXCEPT !.state = "sent", !.conn = transport.ncId]]
    /\ UNCHANGED service

\* publish(subject, data): without a connection object an error is logged
\* and the call returns; otherwise nc.publish(...) of the present connection
\* object is wrapped in a task.  Nothing is raised and nothing is kept.
TransportPublish ==
    /\ Len(transport.msgs) < MaxPublishes
    /\ transport' =
           IF transport.ncId = 0
           THEN [transport EXCEPT
                    !.errors = @ + 1,
                    !.msgs = Append(@, [at |-> ConnState(transport), state |-> "dropped",
                                        nc |-> 0, conn |-> 0, raised |-> FALSE])]
           ELSE [transport EXCEPT
                    !.msgs = Append(@, [at |-> ConnState(transport), state |-> "task",
                                        nc |-> transport.ncId, conn |-> 0,
                                        raised |-> FALSE])]
    /\ UNCHANGED service

\* The task made by publish() runs nc.publish on the connection object it
\* was made with: on a closed connection nc.publish raises inside the task
\* (the event loop logs the exception of the task), otherwise the message
\* goes out on that connection.
TransportPublishTask(n) ==
    /\ n \in 1 .. Len(transport.msgs)
    /\ transport.msgs[n].state = "task"
    /\ transport' =
           [transport EXCEPT !.msgs[n] =
               IF ConnClosed(transport, transport.msgs[n].nc)
               THEN [@ EXCEPT !.state = "failed"]
               ELSE [@ EXCEPT !.state = "sent", !.conn = transport.msgs[n].nc]]
    /\ UNCHANGED service

NextPublish ==
    \/ NextTransport
    \/ TransportPublish
    \/ \E n \in 1 .. MaxPublishes : TransportPublishTask(n)

SpecPublish == Init /\ [][NextPublish]_vars

\* The event loop runs every task that is ready: the reconnect task once
\* its sleep is over, a connect() whose nats.connect has ended, and the
\* subscription loops.  Nothing obliges a caller to call connect(), nor
\* the connection to drop or to close.
FairTransport ==
    /\ SpecTransport
    /\ WF_vars(ReconnectTask)
    /\ WF_vars(ConnectFailed \/ Connected)
    /\ WF_vars(InitSubscriptionsStep)
    /\ WF_vars(CallbackInitStep)

(***************************************************************************)
(* What a subscriber observes of request i.                                *)
(***************************************************************************)
Key(i) == InstanceKey(req[i].data.ws, req[i].data.th)

\* The messages of request i among ms, on its receive and on its error subject.
OnReceive(ms, i) ==
    SelectSeq(ms, LAMBDA m : m.req = i
                     /\ m.subject = ReceiveSubject(req[i].data.ws, req[i].data.th))
OnError(ms, i) ==
    SelectSeq(ms, LAMBDA m : m.req = i /\ m.subject = ErrorSubject(Key(i)))

\* Every publish task of request i has run.
Drained(i) == \A n \in 1 .. Len(tasks) : tasks[n].req # i

Statuses(ms) == [n \in 1 .. Len(ms) |-> ms[n].status]
Texts(ms) == [n \in 1 .. Len(ms) |-> ms[n].text]
NonEmpty(ds) == SelectSeq(ds, LAMBDA t : t # "")
IsPrefix(a, b) == Len(a) <= Len(b) /\ SubSeq(b, 1, Len(a)) = a

\* The stream node of request i was left on one of the three paths on which
\* the adapter itself ends the stream.
StreamExits == {"completed", "stopped", "exception"}

(***************************************************************************)
(* Properties.                                                             *)
(***************************************************************************)
\* C1: for a request handled by an adapter whose stream has ended normally,
\* by should_stop, or by an exception inside the adapter, exactly one
\* END_STREAM is published on the receive subject and nothing of the request
\* follows it there: END_STREAM occurs only as the last receive-subject
\* message, among the messages published and among those on the wire, and
\* once the stream has ended that last message is END_STREAM.
C1_EndStreamLast ==
    \A i \in Slots :
        LET made == OnReceive(wire \o tasks, i)
            sent == OnReceive(wire, i)
        IN /\ \A n \in 1 .. Len(made) : made[n].status = "END_STREAM" => n = Len(made)
           /\ \A n \in 1 .. Len(sent) : sent[n].status = "END_STREAM" => n = Len(sent)
           /\ req[i].streamExit \in StreamExits
                => /\ Len(made) > 0
                   /\ made[Len(made)].status = "END_STREAM"
                   /\ Drained(i) => sent = made

\* A request that streamed a delta, failed inside the adapter and has
\* returned: START_STREAM, STREAMING, END_STREAM on the wire, the error event
\* published after END_STREAM.
C1_Witness ==
    \E i \in Slots :
        /\ req[i].pc = "done"
        /\ req[i].streamExit = "exception"
        /\ Drained(i)
        /\ Statuses(OnReceive(wire, i)) = <<"START_STREAM", "STREAMING", "END_STREAM">>
        /\ Len(OnError(wire, i)) > 0
        /\ wire[Len(wire)].subject = ErrorSubject(Key(i))

\* C2 (as stated): every request whose stream node was entered and left has
\* published exactly one START_STREAM, and it precedes every STREAMING,
\* IMAGE_PARTIAL and IMAGE_COMPLETE message of the request.
C2_ExactlyOneStart ==
    \A i \in Slots :
        LET made == OnReceive(wire \o tasks, i)
        IN /\ req[i].streamExit # NoneVal
                => Len(EventsOf(wire \o tasks, i, "START_STREAM")) = 1
           /\ \A n \in 1 .. Len(made) :
                  made[n].status \in {"STREAMING", "IMAGE_PARTIAL", "IMAGE_COMPLETE"}
                      => \E k \in 1 .. (n - 1) : made[k].status = "START_STREAM"

\* C3: for an OpenAI request the STREAMING messages on the wire carry a
\* prefix of the vendor's non-empty deltas, in the vendor's order; unless the
\* request was stopped, every non-empty delta received was published, and
\* all of them are on the wire once the publish tasks have run; deltas "h",
\* "e", "llo" followed by response.completed (no image event) give START_STREAM,
\* STREAMING "h", "e", "llo", END_STREAM.
C3_DeltasInOrder ==
    \A i \in Slots :
        (req[i].prov # 0 /\ Kind(i) = "OpenAI")
        => LET sent == Texts(EventsOf(wire, i, "STREAMING"))
               made == Texts(EventsOf(wire \o tasks, i, "STREAMING"))
               want == NonEmpty(req[i].deltas)
           IN /\ IsPrefix(sent, want)
              /\ req[i].streamExit # "stopped" => made = want
              /\ (req[i].streamExit # "stopped" /\ Drained(i)) => sent = want
              /\ ( /\ req[i].deltas = <<"h", "e", "llo">>
                   /\ req[i].streamExit = "completed"
                   /\ req[i].response_id # NoneVal
                   /\ req[i].nPartials = 0
                   /\ req[i].image_usage = 0
                   /\ Drained(i) )
                 => /\ Statuses(OnReceive(wire, i)) =
                          <<"START_STREAM", "STREAMING", "STREAMING", "STREAMING",
                            "END_STREAM">>
                    /\ sent = <<"h", "e", "llo">>

\* The happy text path: "h", "e", "llo", response.completed with usage
\* {input 2, output 3}, everything on the wire.
C3_Witness ==
    \E i \in Slots :
        /\ req[i].pc = "done"
        /\ req[i].streamExit = "completed"
        /\ Kind(i) = "OpenAI"
        /\ req[i].deltas = <<"h", "e", "llo">>
        /\ req[i].usage.totalTokens = 5
        /\ Drained(i)
        /\ Texts(EventsOf(wire, i, "STREAMING")) = <<"h", "e", "llo">>

\* C4 (as stated): once a CHAT_STOP has arrived on
\* ai.interaction.chat.stop.<ws>.<th> while the request for (ws, th) was
\* streaming, no further STREAMING message is published for that request.
C4_StopOnDottedSubject ==
    [][\A i \in Slots : req[i].stopDot => Chunks(i)' <= Chunks(i)]_vars

\* C5 (as stated): a request whose workflow ended with an error (validation,
\* vendor failure, exception inside the adapter, timeout) and whose handler
\* has returned has an END_STREAM on its receive subject and a message on its
\* error subject.
C5_ErrorsEndTheStream ==
    \A i \in Slots :
        (req[i].pc = "done" /\ req[i].prov # 0
           /\ (req[i].raised # NoneVal \/ req[i].timedOut))
        => /\ Len(EventsOf(OnReceive(wire \o tasks, i), i, "END_STREAM")) > 0
           /\ Len(OnError(wire \o tasks, i)) > 0

\* The request ended because response.failed carried the error object x.
FailedWith(i, x) ==
    /\ x.present
    /\ req[i].prov # 0
    /\ req[i].raised = "OpenAI Responses API error: " \o x.message
    /\ req[i].error_code = x.code
    /\ req[i].error_type = x.type

\* C6 (as stated): when response.failed carries {message, code, type}, a
\* message of status ERROR with the three fields is published on the receive
\* subject, and {error, errorCode, errorType} on the error subject.
C6_ErrorStatusEvent ==
    \A i \in Slots : \A x \in VendorErrors :
        FailedWith(i, x)
        => LET made == wire \o tasks
           IN /\ \E n \in 1 .. Len(made) :
                    /\ made[n].req = i
                    /\ made[n].subject = ReceiveSubject(req[i].data.ws, req[i].data.th)
                    /\ made[n].status = "ERROR"
                    /\ made[n].error = x.message
                    /\ made[n].errorCode = x.code
                    /\ made[n].errorType = x.type
              /\ \E n \in 1 .. Len(made) :
                    /\ made[n].req = i
                    /\ made[n].subject = ErrorSubject(Key(i))
                    /\ made[n].error = x.message
                    /\ made[n].errorCode = x.code
                    /\ made[n].errorType = x.type

\* C7: when the workflow timeout has expired the workflow is at none of its
\* positions any more; when the handler has returned, a message carrying the
\* circuit-breaker text and the instance key was published on
\* CHAT_ERROR.<ws>:<th>, and neither the request's provider nor, as long as
\* no later request registers it again, its key is in the registry.
C7_TimeoutPublishesError ==
    \A i \in Slots :
        req[i].timedOut
        => /\ req[i].pc \notin WorkflowPcs
           /\ ~req[i].stream_active
           /\ req[i].pc = "done"
                => /\ \E n \in 1 .. Len(wire \o tasks) :
                        LET m == (wire \o tasks)[n]
                        IN /\ m.req = i
                           /\ m.subject = CHAT_ERROR \o <<".", req[i].data.ws, ":",
                                                          req[i].data.th>>
                           /\ m.error = CircuitBreakerMessage
                           /\ m.instanceKey = <<req[i].data.ws, ":", req[i].data.th>>
                   /\ req[i].prov \notin Range(instances)
                   /\ (\A j \in Slots : req[j].pc \notin HandlerPcs)
                        => Key(i) \notin DOMAIN instances

\* A request timed out while it streamed; its handler has returned and the
\* error message is on the wire.
C7_Witness ==
    \E i \in Slots :
        /\ req[i].timedOut
        /\ req[i].streamExit = "cancelled"
        /\ req[i].pc = "done"
        /\ Drained(i)
        /\ Len(EventsOf(wire, i, "STREAMING")) > 0
        /\ \E n \in 1 .. Len(wire) :
              wire[n].req = i /\ wire[n].error = CircuitBreakerMessage

\* C8: no two CHAT_PROCESS handlers that have started and not returned work
\* on the same instance key or on the same provider object.
C8_OneWorkflowPerKey ==
    \A i, j \in Slots :
        (i # j /\ req[i].pc \in HandlerPcs /\ req[j].pc \in HandlerPcs)
        => /\ Key(i) # Key(j)
           /\ req[i].prov # req[j].prov

\* A second CHAT_PROCESS message has arrived while a workflow is running
\* (its payload, the same key included, is drawn when its handler starts).
C8_Witness ==
    \E i, j \in Slots :
        /\ i # j
        /\ req[i].pc \in StreamingPcs
        /\ req[j].pc = "queued"
        /\ Key(i) \in DOMAIN instances

\* C9: the handler step that starts a workflow for a key the registry does
\* not hold registers a new provider object under that key, of the kind the
\* request names; the step with which the handler returns (after success,
\* error, stop or timeout) leaves the registry without the key.
C9_ProviderLifecycle ==
    [][\A i \in Slots :
          /\ (req[i].pc = "queued" /\ req'[i].pc = "validate")
               => LET key == InstanceKey(req'[i].data.ws, req'[i].data.th)
                  IN /\ key \in DOMAIN instances'
                     /\ instances'[key] = req'[i].prov
                     /\ heap'[req'[i].prov].instance_key = key
                     /\ heap'[req'[i].prov].kind = req'[i].data.provider
                     /\ key \notin DOMAIN instances => heap[req'[i].prov] = NoProvider
          /\ (req[i].pc \in HandlerPcs /\ req'[i].pc = "done")
               => Key(i) \notin DOMAIN instances'
      ]_vars

\* A stopped request has returned: its provider was created for it and its
\* key is gone from the registry.
C9_Witness ==
    \E i \in Slots :
        /\ req[i].pc = "done"
        /\ req[i].streamExit = "stopped"
        /\ heap[req[i].prov].instance_key = Key(i)
        /\ Key(i) \notin DOMAIN instances

\* The registry after a _get_or_create_instance call that had to construct
\* a provider: exactly the key added, mapped to a new object of that kind.
RegisteredOne ==
    /\ last.ok
    /\ DOMAIN instances = (DOMAIN last.before) \cup {last.key}
    /\ \A k \in DOMAIN last.before : instances[k] = last.before[k]
    /\ instances[last.key] = last.id
    /\ last.heapBefore[last.id] = NoProvider
    /\ heap[last.id] = [instance_key |-> last.key, kind |-> last.name,
                        should_stop |-> FALSE]
    /\ \A o \in ProvIds \ {last.id} : heap[o] = last.heapBefore[o]

\* The registry after a call that failed: nothing changed.
FailedUnchanged == ~last.ok /\ instances = last.before /\ heap = last.heapBefore

\* Every key maps to one provider object, made for that key, and no object
\* is registered under two keys.
OneProviderPerKey ==
    /\ \A k \in DOMAIN instances : heap[instances[k]].instance_key = k
    /\ \A k1, k2 \in DOMAIN instances : instances[k1] = instances[k2] => k1 = k2

\* C10 (amended): _get_or_create_instance returns the registered provider
\* when the key is present and changes nothing; otherwise, for OpenAI or
\* Anthropic with that provider's API key configured, it registers exactly
\* one new provider under the key; otherwise (another name, or the API key
\* missing) it fails and the registry is unchanged.  The registry holds at
\* most one provider per key.
C10_GetOrCreate ==
    /\ last.op = "getOrCreate"
         => IF last.key \in DOMAIN last.before
            THEN /\ last.ok
                 /\ last.id = last.before[last.key]
                 /\ instances = last.before
                 /\ heap = last.heapBefore
            ELSE IF last.name \in {"OpenAI", "Anthropic"} /\ last.name \in apiKeys
            THEN RegisteredOne
            ELSE FailedUnchanged
    /\ OneProviderPerKey

\* C10 (as stated): as above, but every call for OpenAI or Anthropic with an
\* absent key registers a new provider.
C10_AsStated ==
    /\ last.op = "getOrCreate"
         => IF last.key \in DOMAIN last.before
            THEN /\ last.ok
                 /\ last.id = last.before[last.key]
                 /\ instances = last.before
                 /\ heap = last.heapBefore
            ELSE IF last.name \in {"OpenAI", "Anthropic"}
            THEN RegisteredOne
            ELSE FailedUnchanged
    /\ OneProviderPerKey

\* A call found its key registered and returned that provider, while the
\* registry holds a provider under each of two keys.
C10_Witness ==
    /\ last.op = "getOrCreate"
    /\ last.key \in DOMAIN last.before
    /\ last.ok
    /\ last.id = instances[last.key]
    /\ Cardinality(DOMAIN instances) = 2

\* The payload d lacks a field the validation requires.
MissingField(d) == d.model = "" \/ d.messages = "empty" \/ d.ws = "" \/ d.th = ""

\* C11 (as stated): a request that lacks modelVersion, messages, workspaceId
\* or threadId and whose handler has returned has published no stream event,
\* has published an error event, and has left no instance in the registry.
C11_ValidationFails ==
    \A i \in Slots :
        (req[i].pc = "done" /\ MissingField(req[i].data))
        => LET made == wire \o tasks
           IN /\ \A n \in 1 .. Len(made) :
                    made[n].req = i => made[n].status = NoneVal
              /\ \E n \in 1 .. Len(made) :
                    made[n].req = i /\ made[n].error # NoneVal
              /\ Key(i) \notin DOMAIN instances

\* C12: when the workflow of a request has ended (success, exception,
\* stop or timeout) stream_active is false; once the stream node was entered
\* and left, on whatever path, ai_request_finished_at is recorded, and it is
\* not earlier than ai_request_received_at.
C12_StreamReleased ==
    \A i \in Slots :
        /\ (req[i].prov # 0 /\ req[i].pc \in {"usage", "cleanup", "returning", "done"})
             => ~req[i].stream_active
        /\ req[i].streamExit # NoneVal => req[i].ai_request_finished_at # NoTime
        /\ req[i].ai_request_finished_at # NoTime
             => /\ req[i].ai_request_received_at # NoTime
                /\ req[i].ai_request_received_at <= req[i].ai_request_finished_at

\* A request was cancelled by the timeout while it streamed, one tick after
\* it was received, and its handler has returned.
C12_Witness ==
    \E i \in Slots :
        /\ req[i].pc = "done"
        /\ req[i].timedOut
        /\ req[i].streamExit = "cancelled"
        /\ Len(req[i].deltas) > 0
        /\ req[i].ai_request_received_at = 0
        /\ req[i].ai_request_finished_at = 1

\* The messages of request i among ms that carry an error.
ErrorsOf(ms, i) == SelectSeq(ms, LAMBDA m : m.req = i /\ m.error # NoneVal)

\* C13: when the stream node ended without error and a report of the
\* usage reporter fails (tokens or image), the step in which it fails takes
\* the workflow to the cleanup node and raises nothing; the cleanup node
\* then resets should_stop; and unless the timeout expires, no error message
\* is ever published for the request.
C13_AccountingNotFatal ==
    [][\A i \in Slots :
          /\ (req'[i].accountingFailed /\ ~req[i].accountingFailed)
               => /\ req[i].pc = "usage"
                  /\ req'[i].pc = "cleanup"
                  /\ req'[i].raised = NoneVal
          /\ (req[i].accountingFailed /\ req[i].pc = "cleanup"
                /\ req'[i].pc # "cleanup" /\ ~req'[i].timedOut)
               => /\ req'[i].pc = "returning"
                  /\ req'[i].raised = NoneVal
                  /\ ~heap'[req[i].prov].should_stop
          /\ (req[i].accountingFailed /\ req'[i].pc # "free" /\ ~req'[i].timedOut)
               => ErrorsOf(wire' \o tasks', i) = <<>>
      ]_vars

\* A request completed with usage and a generated image, both reports
\* failed, and its handler has returned without a timeout.
C13_Witness ==
    \E i \in Slots :
        /\ req[i].accountingFailed
        /\ req[i].pc = "done"
        /\ ~req[i].timedOut
        /\ req[i].streamExit = "completed"
        /\ req[i].usage.set
        /\ req[i].image_usage > 0
        /\ req[i].reports = <<>>
        /\ Drained(i)

\* The calculate_usage node of request i has run to its end.
Accounted(i) ==
    \/ req[i].pc = "cleanup"
    \/ /\ req[i].pc \in {"returning", "done"}
       /\ req[i].streamExit \in {"completed", "stopped"}
       /\ ~req[i].timedOut

\* C14 (as stated): with a usage reporter that does not fail, a request
\* whose stream ended without error (completed, also with an image, or
\* stopped) has exactly one report once its accounting has run, and a
\* request that ended with an error has none.
C14_OneReportPerRequest ==
    \A i \in Slots :
        /\ (Accounted(i) /\ req[i].error = NoneVal /\ ~req[i].accountingFailed)
             => Len(req[i].reports) = 1
        /\ (req[i].error # NoneVal \/ req[i].raised # NoneVal)
             => req[i].reports = <<>>


\* The image events of request i among the messages ms.
ImageEvents(ms, i) ==
    SelectSeq(ms, LAMBDA m : m.req = i /\ m.status \in {"IMAGE_PARTIAL", "IMAGE_COMPLETE"})

UploadPcs == {"upload_partial", "upload_final"}

\* C15: an IMAGE_PARTIAL or IMAGE_COMPLETE event is published only by the
\* step that ends an upload which returned HTTP 200, and carries the fileId
\* and url the upload returned (a partial also the vendor's index); an
\* upload that failed (another status, network error) publishes nothing,
\* raises nothing and leaves the stream reading the vendor's events; two
\* partial images followed by a completed one, every upload succeeding,
\* give START_STREAM, IMAGE_PARTIAL 0, IMAGE_PARTIAL 1, IMAGE_COMPLETE, and
\* END_STREAM once the stream has ended.
C15_ImageEventsAfterUpload ==
    [][\A i \in Slots :
         LET before == ImageEvents(wire \o tasks, i)
             after  == ImageEvents(wire' \o tasks', i)
             ended  == req[i].pc \in UploadPcs /\ req'[i].pc \notin UploadPcs
                           /\ ~req'[i].timedOut
         IN /\ (req'[i].pc # "free" /\ after # before)
                => /\ ended
                   /\ req'[i].uploaded = req[i].uploaded + 1
                   /\ Len(after) = Len(before) + 1
                   /\ tasks' # <<>>
                   /\ LET m == tasks'[Len(tasks')] IN
                        /\ m = after[Len(after)]
                        /\ m.fileId = "f1" /\ m.imageUrl = "u1"
                        /\ m.status = IF req[i].pc = "upload_partial"
                                      THEN "IMAGE_PARTIAL" ELSE "IMAGE_COMPLETE"
                        /\ req[i].pc = "upload_partial"
                               => m.partialIndex = req[i].nPartials - 1
            /\ (ended /\ req'[i].uploaded = req[i].uploaded)
                => /\ tasks' = tasks
                   /\ req'[i].pc = "loop"
                   /\ req'[i].stream_active = req[i].stream_active
                   /\ req'[i].raised = req[i].raised
                   /\ req'[i].streamExit = req[i].streamExit
            /\ ( /\ req[i].pc = "upload_final" /\ ended
                 /\ req[i].deltas = <<>>
                 /\ req[i].nPartials = 2
                 /\ req[i].image_usage = 0
                 /\ req[i].uploaded = 2 /\ req'[i].uploaded = 3 )
               => LET got == OnReceive(wire' \o tasks', i) IN
                    /\ Statuses(got) = <<"START_STREAM", "IMAGE_PARTIAL", "IMAGE_PARTIAL",
                                         "IMAGE_COMPLETE">>
                    /\ got[2].partialIndex = 0
                    /\ got[3].partialIndex = 1
            /\ ( /\ req'[i].streamExit = "completed"
                 /\ req'[i].deltas = <<>>
                 /\ Statuses(ImageEvents(wire', i)) =
                        <<"IMAGE_PARTIAL", "IMAGE_PARTIAL", "IMAGE_COMPLETE">>
                 /\ \A n \in 1 .. Len(tasks') : tasks'[n].req # i )
               => Statuses(OnReceive(wire', i)) =
                      <<"START_STREAM", "IMAGE_PARTIAL", "IMAGE_PARTIAL",
                        "IMAGE_COMPLETE", "END_STREAM">>
      ]_vars

\* Two partial images and the completed image were uploaded and the five
\* events are on the wire.
C15_Witness ==
    \E i \in Slots :
        /\ req[i].streamExit = "completed"
        /\ req[i].nPartials = 2
        /\ req[i].uploaded = 3
        /\ Drained(i)
        /\ Statuses(OnReceive(wire, i)) =
               <<"START_STREAM", "IMAGE_PARTIAL", "IMAGE_PARTIAL", "IMAGE_COMPLETE",
                 "END_STREAM">>

\* C16 (as stated): an accepted Anthropic request whose stream node was
\* left, not by the timeout, published START_STREAM first and END_STREAM last on its
\* receiveMessage subject, with no error recorded.
C16_AnthropicStreams ==
    \A i \in Slots :
        ( /\ req[i].prov # 0
          /\ Kind(i) = "Anthropic"
          /\ req[i].streamExit # NoneVal
          /\ ~req[i].timedOut )
        => LET made == Statuses(OnReceive(wire \o tasks, i)) IN
             /\ made # <<>>
             /\ made[1] = "START_STREAM"
             /\ made[Len(made)] = "END_STREAM"
             /\ req[i].error = NoneVal

\* How many times the declared subscription k is registered on the connection.
TimesInstalled(t, k) ==
    Cardinality({ n \in 1 .. Len(t.subs) : t.subs[n] = Declared[k] })

\* The subscriptions active on the connection, as a set.
Active(t) == { t.subs[n] : n \in 1 .. Len(t.subs) }

\* Connected, no connect() under way, every declared subscription installed.
Ready(t) ==
    /\ IsConnected(t)
    /\ t.connectPc = "idle"
    /\ \A k \in 1 .. Len(Declared) : TimesInstalled(t, k) >= 1

\* C17: a connect attempt that fails (timeout or error) ends connect()
\* normally, with a reconnect scheduled and nothing else changed; and once a
\* reconnect is scheduled, the broker failing at most MaxConnectFailures
\* times, the transport becomes connected with every declared subscription
\* installed, unless the connection is closed for good meanwhile.
C17_ReconnectAfterFailure ==
    /\ [][ ( /\ transport.connectPc = "dialing"
             /\ transport'.connectPc # "dialing"
             /\ transport'.ncId = transport.ncId )
           => /\ transport'.connectPc = "idle"
              /\ ~transport'.is_connecting
              /\ transport'.reconnect_timer
              /\ transport'.subs = transport.subs
              /\ transport'.subscriptions_initialized =
                     transport.subscriptions_initialized ]_vars
    /\ transport.reconnect_timer ~> (Ready(transport) \/ transport.closes > 0)

\* Two attempts failed, then the transport got connected and installed the
\* declared subscriptions.
C17_Witness ==
    /\ transport.failures = MaxConnectFailures
    /\ transport.closes = 0
    /\ ~transport.reconnect_timer
    /\ Ready(transport)
    /\ transport.subs = Declared

\* C18 (as stated): once a connection was closed for good and a later
\* connect() has succeeded and returned, the subscriptions active on the new
\* connection are the declared ones, none missing and none extra.
C18_DeclaredAfterClose ==
    ( /\ transport.closedAt # 0
      /\ transport.ncId > transport.closedAt
      /\ IsConnected(transport)
      /\ transport.connectPc = "idle"
      /\ transport.cbNext = 0 )
    => Active(transport) = { Declared[k] : k \in 1 .. Len(Declared) }

\* C19 (as stated): no declared subscription is ever registered twice on a
\* connection, and each is registered once when connect() has returned on a
\* connection that was never closed.
C19_InstalledOnce ==
    \A k \in 1 .. Len(Declared) :
        /\ TimesInstalled(transport, k) <= 1
        /\ ( /\ IsConnected(transport)
             /\ transport.connectPc = "idle"
             /\ transport.cbNext = 0
             /\ transport.closes = 0 )
           => TimesInstalled(transport, k) = 1

\* C20 (as stated): after the closed callback has run, the transport
\* eventually starts a connect attempt.
C20_CloseTriggersReconnect ==
    transport.closedPending ~> ~transport.closedPending

\* C8 (as stated): no two CHAT_PROCESS handlers of the process run at the
\* same time for the same instance key, whatever the connection went
\* through.
C8_OneHandlerPerKey ==
    \A m, n \in 1 .. Len(transport.handling) :
        (m # n /\ transport.handling[m] # <<>>)
        => transport.handling[m] # transport.handling[n]

(***************************************************************************)
(* Functions and callbacks that take no part in the state of the service,  *)
(* called once on an input of a bounded set; last records the call.        *)
(***************************************************************************)
others == <<req, queue, instances, heap, apiKeys, tasks, wire, limits, transport>>

\* Python values by kind: what json.dumps, str.encode and msg.respond
\* accept depends on the kind only.
ValueKinds == {"dict", "str", "bytes", "object", "exception"}
Value(kind, v) == [kind |-> kind, v |-> v]
Raise(e) == [raised |-> TRUE, value |-> Value("exception", e)]
Return(x) == [raised |-> FALSE, value |-> x]

\* encode(value, payload_type): json.dumps(value).encode() for 'json',
\* which raises TypeError on a value that is not JSON serializable;
\* for 'buffer' a str is encoded and any other value is returned as it is.
encode(value, payload_type) ==
    IF payload_type = "json"
    THEN IF value.kind \in {"dict", "str"}
         THEN Return(Value("bytes", <<"json", value.v>>))
         ELSE Raise("TypeError")
    ELSE IF value.kind = "str"
         THEN Return(Value("bytes", <<"utf8", value.v>>))
         ELSE Return(value)

\* decode(msg, payload_type): json.loads(msg.data.decode()) or
\* msg.data.decode(); raises on bytes that are not JSON, not UTF-8.
decode(data, payload_type) ==
    IF data = "malformed"
    THEN Raise(IF payload_type = "json" THEN "JSONDecodeError" ELSE "UnicodeDecodeError")
    ELSE Return(Value(IF payload_type = "json" THEN "dict" ELSE "str", data))

\* msg.respond(payload): the payload is sent if it is bytes; anything else
\* raises in the client library.
respond(sent, payload) ==
    IF payload.kind = "bytes"
    THEN [raised |-> FALSE, sent |-> Append(sent, payload)]
    ELSE [raised |-> TRUE, sent |-> sent]

\* The reply of the `except Exception as error` clause of reply_handler:
\* msg.respond(encode(error, payload_type)).
RespondError(sent, error, payload_type) ==
    LET enc == encode(error, payload_type) IN
    IF enc.raised
    THEN [escaped |-> TRUE, sent |-> sent]
    ELSE LET r == respond(sent, enc.value)
         IN [escaped |-> r.raised, sent |-> r.sent]

\* reply_handler(msg) for a request with payload `data` and a handler with
\* outcome `out`: the responses sent on the reply subject, and whether an
\* exception left the callback.
reply_handler(data, payload_type, out) ==
    LET dec == decode(data, payload_type) IN
    IF dec.raised THEN RespondError(<<>>, dec.value, payload_type)
    ELSE IF out.raised THEN RespondError(<<>>, out.value, payload_type)
    ELSE LET enc == encode(out.value, payload_type) IN
         IF enc.raised THEN RespondError(<<>>, enc.value, payload_type)
         ELSE LET r == respond(<<>>, enc.value) IN
              IF r.raised
              THEN RespondError(r.sent, Value("exception", "TypeError"), payload_type)
              ELSE [escaped |-> FALSE, sent |-> r.sent]

PayloadTypes == {"json", "buffer"}
RequestData == {"ping", "malformed"}
\* What the handler of a reply subscription does: return a value, or raise.
HandlerOutcomes ==
    { Return(Value(k, "pong")) : k \in {"dict", "str", "bytes", "object"} }
        \cup { Raise("ValueError") }

\* A request reaches a reply subscription.
CallReplyHandler(data, payload_type, out) ==
    /\ last = NoCall
    /\ last' = [op |-> "reply_handler", data |-> data, payload_type |-> payload_type,
                out |-> out, result |-> reply_handler(data, payload_type, out)]
    /\ UNCHANGED others

\* C21 (as stated): a request to a reply subscription gets exactly one
\* response: the encoded return value when the handler returns one that
\* can be encoded, and otherwise (the handler or the decoding raised) one
\* encoded error; no exception leaves the callback.
C21_OneResponsePerRequest ==
    last.op = "reply_handler"
    => /\ Len(last.result.sent) = 1
       /\ ~last.result.escaped
       /\ ( /\ last.data # "malformed"
            /\ ~last.out.raised
            /\ ~encode(last.out.value, last.payload_type).raised )
          => last.result.sent[1] = encode(last.out.value, last.payload_type).value


Find(s, ch, from) ==
    IF \E n \in from .. Len(s) : s[n] = ch
    THEN CHOOSE n \in from .. Len(s) : s[n] = ch /\ \A k \in from .. (n - 1) : s[k] # ch
    ELSE 0

\* str.startswith, str.endswith
StartsWith(s, prefix) ==
    Len(prefix) <= Len(s) /\ SubSeq(s, 1, Len(prefix)) = prefix
EndsWith(s, suffix) ==
    Len(suffix) <= Len(s) /\ SubSeq(s, Len(s) - Len(suffix) + 1, Len(s)) = suffix

\* A match_filter that takes everything after the first '*' as the suffix.
match_filter_one_star(value, filter_pattern) ==
    LET idx == Find(filter_pattern, "*", 1) IN
    IF idx = 0 THEN value = filter_pattern
    ELSE /\ StartsWith(value, SubSeq(filter_pattern, 1, idx - 1))
         /\ EndsWith(value, SubSeq(filter_pattern, idx + 1, Len(filter_pattern)))

\* get_subscriptions.match_filter(value, filter_pattern)
match_filter(value, filter_pattern) ==
    LET idx == Find(filter_pattern, "*", 1) IN
    IF idx = 0 THEN value = filter_pattern
    ELSE IF Find(filter_pattern, "*", idx + 1) # 0 THEN FALSE
    ELSE /\ StartsWith(value, SubSeq(filter_pattern, 1, idx - 1))
         /\ EndsWith(value, SubSeq(filter_pattern, idx + 1, Len(filter_pattern)))

\* Strings of at most n characters of the alphabet.
Strings(alphabet, n) == UNION { [1 .. k -> alphabet] : k \in 0 .. n }

\* Longest subject and pattern drawn from the alphabets.
MaxSubjectLen == 3

\* Subjects and filter patterns match_filter is called with: the examples,
\* and every short string.
FilterValues ==
    Strings({"a", "b", "*"}, MaxSubjectLen)
        \cup { <<"a", ".", "b", ".", "c">>, <<"a", ".", "b", ".", "d">>,
               <<"a", ".", "c">>, <<"a", ".", "*", ".", "c">> }
FilterPatterns ==
    Strings({"a", "*"}, MaxSubjectLen)
        \cup { <<"a", ".", "*", ".", "c">>, <<"a", ".", "b", ".", "c">>,
               <<"a", ".", "*", ".", "*">>, <<"*", ".", "b", ".", "*">> }

CallMatchFilter(value, filter_pattern) ==
    /\ last = NoCall
    /\ last' = [op |-> "match_filter", value |-> value, pattern |-> filter_pattern,
                result |-> match_filter(value, filter_pattern)]
    /\ UNCHANGED others

\* The number of '*' in a pattern.
Stars(p) == Cardinality({ n \in 1 .. Len(p) : p[n] = "*" })

\* C24: match("a.b.c", "a.*.c") is true and match("a.b.d", "a.*.c") false;
\* a pattern with two or more '*' matches nothing; a pattern without '*'
\* matches exactly the value equal to it.
C24_WildcardMatch ==
    last.op = "match_filter"
    => /\ (last.value = <<"a", ".", "b", ".", "c">>
             /\ last.pattern = <<"a", ".", "*", ".", "c">>) => last.result
       /\ (last.value = <<"a", ".", "b", ".", "d">>
             /\ last.pattern = <<"a", ".", "*", ".", "c">>) => ~last.result
       /\ Stars(last.pattern) >= 2 => ~last.result
       /\ Stars(last.pattern) = 0 => (last.result <=> last.value = last.pattern)

\* The pattern "a**" was tried on the subject "a**", which its prefix and
\* the rest after its first '*' both fit, and did not match.
C24_Witness ==
    /\ last.op = "match_filter"
    /\ Stars(last.pattern) = 2
    /\ last.value = <<"a", "*", "*">>
    /\ last.pattern = <<"a", "*", "*">>
    /\ ~last.result


\* get_subscriptions(subjects): the tracked subjects that fit one of the
\* filters (all of them without a filter); nothing without an open
\* connection.
get_subscriptions(t, subjects) ==
    IF t.ncId = 0 \/ t.ncClosed
    THEN {}
    ELSE { s \in t.subscriptions :
              subjects = <<>> \/ \E n \in 1 .. Len(subjects) : match_filter(s, subjects[n]) }

\* unsubscribe_all(): unsubscribes every tracked subscription and clears the
\* dict; does nothing without an open connection.
unsubscribe_all(t) ==
    IF t.ncId = 0 \/ t.ncClosed
    THEN t
    ELSE LET kept == SelectSeq(t.subs, LAMBDA sub : sub.subject \notin t.subscriptions)
         IN [t EXCEPT !.subs = kept,
                      !.handling = [n \in 1 .. Len(kept) |-> <<>>],
                      !.subscriptions = {}]

\* C23 (as stated): while connected, the subject of every subscription made
\* is returned by the lookup without filter, and unsubscribe_all leaves no
\* subscription active and nothing tracked.
C23_SubscriptionsTracked ==
    IsConnected(transport)
    => /\ \A n \in 1 .. Len(transport.subs) :
             transport.subs[n].subject \in get_subscriptions(transport, <<>>)
       /\ unsubscribe_all(transport).subs = <<>>
       /\ unsubscribe_all(transport).subscriptions = {}


\* Values a credential of NatsServiceConfig has: None, the empty string (as
\* false as None in a condition), or a value.
Credentials(v) == {NoneVal, "", v}
Truthy(x) == x # NoneVal /\ x # ""

AuthConfigs ==
    [nkey_seed : Credentials("SUSEED"), user_id : Credentials("svc:llm-service"),
     token : Credentials("tok"), user : Credentials("usr"),
     password : Credentials("pwd")]

\* generate_self_issued_jwt(nkey_seed, user_id): header.payload.signature,
\* the payload naming the user, the signature made with the seed; the one
\* seed and the one user id of AuthConfigs give this token.
generate_self_issued_jwt(nkey_seed, user_id) ==
    IF nkey_seed = "SUSEED" /\ user_id = "svc:llm-service"
    THEN "header.svc:llm-service.signed-SUSEED"
    ELSE "header.payload.signature"

\* The authentication keys of the connection options before
\* _apply_authentication.
NoAuth == [token |-> NoneVal, user |-> NoneVal, password |-> NoneVal]

\* An _apply_authentication that prefers a configured token to the seed.
ApplyAuthenticationTokenFirst(config) ==
    IF Truthy(config.token)
    THEN [NoAuth EXCEPT !.token = config.token]
    ELSE IF Truthy(config.nkey_seed) /\ Truthy(config.user_id)
    THEN [NoAuth EXCEPT !.token = generate_self_issued_jwt(config.nkey_seed,
                                                           config.user_id)]
    ELSE IF Truthy(config.user) /\ Truthy(config.password)
    THEN [NoAuth EXCEPT !.user = config.user, !.password = config.password]
    ELSE NoAuth

\* _apply_authentication(options)
ApplyAuthentication(config) ==
    IF Truthy(config.nkey_seed) /\ Truthy(config.user_id)
    THEN [NoAuth EXCEPT !.token = generate_self_issued_jwt(config.nkey_seed,
                                                           config.user_id)]
    ELSE IF Truthy(config.token)
    THEN [NoAuth EXCEPT !.token = config.token]
    ELSE IF Truthy(config.user) /\ Truthy(config.password)
    THEN [NoAuth EXCEPT !.user = config.user, !.password = config.password]
    ELSE NoAuth

CallApplyAuthentication(config) ==
    /\ last = NoCall
    /\ last' = [op |-> "_apply_authentication", config |-> config,
                options |-> ApplyAuthentication(config)]
    /\ UNCHANGED others

\* C25: with seed and user id both set the options carry the self-issued
\* JWT as token and no user/password; else a set token is used verbatim;
\* else user and password, both set, are used; else no credential at all.
\* The options never carry a token together with user/password.
C25_AuthPrecedence ==
    last.op = "_apply_authentication"
    => LET c == last.config
           o == last.options
           jwt == Truthy(c.nkey_seed) /\ Truthy(c.user_id)
           tok == ~jwt /\ Truthy(c.token)
           basic == ~jwt /\ ~tok /\ Truthy(c.user) /\ Truthy(c.password)
       IN /\ jwt => o = [NoAuth EXCEPT !.token = generate_self_issued_jwt(c.nkey_seed,
                                                                          c.user_id)]
          /\ tok => o = [NoAuth EXCEPT !.token = c.token]
          /\ basic => o = [NoAuth EXCEPT !.user = c.user, !.password = c.password]
          /\ (~jwt /\ ~tok /\ ~basic) => o = NoAuth
          /\ ~(o.token # NoneVal /\ (o.user # NoneVal \/ o.password # NoneVal))

\* Every credential is configured: the self-issued JWT wins.
C25_Witness ==
    /\ last.op = "_apply_authentication"
    /\ \A f \in DOMAIN last.config : Truthy(last.config[f])
    /\ last.options.token = "header.svc:llm-service.signed-SUSEED"


(***************************************************************************)
(* Attachments (utils/attachments.py).  A content value is a str, a list   *)
(* of blocks, or another object; a block is a dict, here a record whose    *)
(* domain is the dict's keys.  A URL is the sequence of its parts, so that *)
(* parsing and re-assembling one is computed and not assumed.              *)
(***************************************************************************)
Str(s) == [str |-> s]
List(blocks) == [list |-> blocks]
\* isinstance(content, str), isinstance(content, list), isinstance(block, dict)
IsStr(content) == "str" \in DOMAIN content
IsList(content) == "list" \in DOMAIN content
IsDict(block) == "str" \notin DOMAIN block
\* dict.get(key, default)
Get(d, key, default) == IF key \in DOMAIN d THEN d[key] ELSE default
\* None, where a block is expected.
NoBlock == [none |-> NoneVal]

DataUrl == <<"data:", "image/png", ";", "base64,", "iVBORw0KGgo=">>
Urls ==
    { DataUrl,
      <<"data:", "image/png", ";", "charset=binary", ";", "base64,", "iVBORw0KGgo=">>,
      <<"data:", "image/png", ",", "raw">>,
      <<"data:", "image/png", ";", "base64,">>,
      <<"data:", ";", "base64,", "iVBORw0KGgo=">>,
      <<"nats-obj://", "images", "/", "k1">>,
      <<"nats-obj://", "images", "/", "k2">>,
      <<"nats-obj://", "images">>,
      <<"https://", "host", "/", "a.png">> }

\* parse_data_url: re.match(r'data:([^;]+);base64,(.+)', data_url, re.DOTALL).
\* [^;]+ can only end at the first ';' after 'data:', which ';base64,' has
\* to follow at once, and (.+) takes the non-empty rest.
parse_data_url(data_url) ==
    LET semi == Find(data_url, ";", 2) IN
    IF /\ Len(data_url) >= 1 /\ data_url[1] = "data:"
       /\ semi > 2
       /\ Len(data_url) >= semi + 2
       /\ data_url[semi + 1] = "base64,"
    THEN Return([media_type |-> SubSeq(data_url, 2, semi - 1),
                 data |-> SubSeq(data_url, semi + 2, Len(data_url))])
    ELSE Raise("ValueError")

_convert_image_block_to_anthropic(block) ==
    LET url == Get(block, "image_url", <<>>) IN
    IF StartsWith(url, <<"data:">>)
    THEN LET p == parse_data_url(url) IN
         IF p.raised THEN NoBlock
         ELSE [type |-> "image",
               source |-> [type |-> "base64", media_type |-> p.value.media_type,
                           data |-> p.value.data]]
    ELSE [type |-> "image", source |-> [type |-> "url", url |-> url]]

_convert_file_block_to_anthropic(block) ==
    LET file_obj == Get(block, "file", [x \in {} |-> NoneVal])
        url == Get(file_obj, "url", <<>>)
    IN IF StartsWith(url, <<"data:">>)
       THEN LET p == parse_data_url(url) IN
            IF p.raised THEN NoBlock
            ELSE [type |-> "document",
                  source |-> [type |-> "base64", media_type |-> p.value.media_type,
                              data |-> p.value.data]]
       ELSE NoBlock

_convert_content_block_to_anthropic(block) ==
    LET block_type == Get(block, "type", NoneVal) IN
    IF block_type = "input_text"
    THEN [type |-> "text", text |-> Get(block, "text", "")]
    ELSE IF block_type = "input_image" THEN _convert_image_block_to_anthropic(block)
    ELSE IF block_type = "file" THEN _convert_file_block_to_anthropic(block)
    ELSE NoBlock

RECURSIVE anthropic_content(_)
\* The list the loop of convert_content_for_anthropic builds.
anthropic_content(blocks) ==
    IF blocks = <<>> THEN <<>>
    ELSE LET block == Head(blocks)
             converted == IF IsDict(block) THEN _convert_content_block_to_anthropic(block)
                          ELSE NoBlock
         IN (IF converted # NoBlock THEN <<converted>> ELSE <<>>)
            \o anthropic_content(Tail(blocks))

convert_content_for_anthropic(content) ==
    IF IsStr(content) THEN content
    ELSE IF ~IsList(content) THEN content
    ELSE IF anthropic_content(content.list) # <<>>
         THEN List(anthropic_content(content.list))
         ELSE Str("")

RECURSIVE validated_content(_)
\* The list the loop of convert_content_for_openai builds.
validated_content(blocks) ==
    IF blocks = <<>> THEN <<>>
    ELSE LET block == Head(blocks)
             block_type == Get(block, "type", NoneVal)
         IN (IF ~IsDict(block) THEN <<>>
             ELSE IF block_type = "input_text"
             THEN << [type |-> "input_text", text |-> Get(block, "text", "")] >>
             ELSE IF block_type = "input_image"
             THEN << [type |-> "input_image",
                      image_url |-> Get(block, "image_url", <<>>),
                      detail |-> Get(block, "detail", "auto")] >>
             ELSE IF block_type = "file" THEN <<block>>
             ELSE <<>>)
            \o validated_content(Tail(blocks))

\* A conversion that returns the list it built even when it is empty.
convert_content_for_openai_empty_list(content) ==
    IF IsStr(content) THEN content
    ELSE IF ~IsList(content) THEN content
    ELSE List(validated_content(content.list))

convert_content_for_openai(content) ==
    IF IsStr(content) THEN content
    ELSE IF ~IsList(content) THEN content
    ELSE IF validated_content(content.list) # <<>>
         THEN List(validated_content(content.list))
         ELSE Str("")

\* AttachmentFormat
AttachmentFormat == {"openai", "anthropic"}

convert_attachments_for_provider(content, target_format) ==
    IF target_format = "anthropic" THEN convert_content_for_anthropic(content)
    ELSE IF target_format = "openai" THEN convert_content_for_openai(content)
    ELSE content

\* The blocks of a message: text with and without its 'text' and with a
\* further key, images on every URL, with and without 'detail' and without
\* a URL, files, blocks of unknown type or of none, and an item that is not
\* a dict.
Blocks ==
    { [type |-> "input_text", text |-> "hi"],
      [type |-> "input_text"],
      [type |-> "input_text", text |-> "hi", id |-> "b1"] }
    \cup { [type |-> "input_image", image_url |-> u] : u \in Urls }
    \cup { [type |-> "input_image", image_url |-> DataUrl, detail |-> "high"],
           [type |-> "input_image"] }
    \cup { [type |-> "file", file |-> [url |-> DataUrl, mime_type |-> "application/pdf"]],
           [type |-> "file", file |-> [url |-> <<"https://", "host", "/", "a.pdf">>]],
           [type |-> "file"] }
    \cup { [type |-> "input_audio"], [text |-> "hi"], [str |-> "hi"] }

\* Longest list of blocks in a content value.
MaxBlocks == 2

Contents ==
    { Str("hello"), Str(""), [other |-> NoneVal] }
    \cup { List(blocks) : blocks \in Strings(Blocks, MaxBlocks) }

\* convert_attachments_for_provider is applied to a content value, and once
\* more to what it returned.
CallConvertAttachments(content, target_format) ==
    /\ last = NoCall
    /\ last' = [op |-> "convert_attachments_for_provider",
                content |-> content, target_format |-> target_format,
                result |-> convert_attachments_for_provider(content, target_format),
                again |-> convert_attachments_for_provider(
                              convert_attachments_for_provider(content, target_format),
                              target_format)]
    /\ UNCHANGED others

\* C26: converting attachments twice for the same target format gives what
\* converting them once gives, for OPENAI and for ANTHROPIC.
C26_ConversionIdempotent ==
    last.op = "convert_attachments_for_provider" => last.again = last.result


\* _convert_content_block_to_anthropic on one block.
CallConvertBlock(block) ==
    /\ last = NoCall
    /\ last' = [op |-> "_convert_content_block_to_anthropic", block |-> block,
                converted |-> _convert_content_block_to_anthropic(block)]
    /\ UNCHANGED others

\* C27: every input_image block whose image_url starts with 'data:' is
\* converted for Anthropic to an image block with a base64 source, and
\* 'data:' + media_type + ';base64,' + data is the original URL; the block
\* is never dropped.
C27_DataUrlRoundTrip ==
    (/\ last.op = "_convert_content_block_to_anthropic"
     /\ Get(last.block, "type", NoneVal) = "input_image"
     /\ StartsWith(Get(last.block, "image_url", <<>>), <<"data:">>))
    => /\ last.converted # NoBlock
       /\ last.converted.type = "image"
       /\ last.converted.source.type = "base64"
       /\ <<"data:">> \o last.converted.source.media_type \o <<";", "base64,">>
              \o last.converted.source.data
          = last.block.image_url


(***************************************************************************)
(* resolve_image_urls.  The object store is a function from object keys to *)
(* what get_object does for the key: it returns bytes (a sequence of       *)
(* bytes, possibly empty), returns None, or raises.                        *)
(***************************************************************************)
Jpeg == <<"ff", "d8", "ff", "e0", "00">>
Gif == <<"G", "I", "F", "8", "9">>
Webp == <<"R", "I", "F", "F", "00", "00", "00", "00", "W", "E", "B", "P", "V">>
Png == <<"89", "P", "N", "G", "0d", "0a", "1a", "0a", "00">>
ShortJpeg == <<"ff", "d8", "ff", "e0">>

Bytes(data) == [kind |-> "bytes", data |-> data]
FetchOutcomes ==
    { Bytes(d) : d \in {Jpeg, Gif, Webp, Png, ShortJpeg, <<>>} }
    \cup { [kind |-> "None", data |-> <<>>], [kind |-> "raise", data |-> <<>>] }
ObjectKeys == {"k1", "k2"}
Stores == [ObjectKeys -> FetchOutcomes]

\* nats_client.get_object(bucket_name, object_key)
get_object(store, bucket_name, object_key) ==
    IF Len(object_key) = 1 /\ object_key[1] \in DOMAIN store
    THEN store[object_key[1]]
    ELSE [kind |-> "None", data |-> <<>>]

\* base64.b64encode(data).decode('utf-8')
b64encode(data) ==
    CASE data = Jpeg -> "/9j/4AA="
      [] data = Gif -> "R0lGODk="
      [] data = Webp -> "UklGRgAAAABXRUJQVg=="
      [] data = Png -> "iVBORw0KGgoA"
      [] data = ShortJpeg -> "/9j/4A=="
      [] data = <<>> -> ""

\* The mime type detected from the magic bytes.
mime_type(data) ==
    IF Len(data) > 4
    THEN IF SubSeq(data, 1, 2) = <<"ff", "d8">> THEN "image/jpeg"
         ELSE IF SubSeq(data, 1, 4) = <<"G", "I", "F", "8">> THEN "image/gif"
         ELSE IF /\ SubSeq(data, 1, 4) = <<"R", "I", "F", "F">>
                 /\ Len(data) > 12
                 /\ SubSeq(data, 9, 12) = <<"W", "E", "B", "P">>
         THEN "image/webp"
         ELSE "image/png"
    ELSE "image/png"

NoRef == [none |-> NoneVal]
parse_nats_object_ref(ref) ==
    IF ~StartsWith(ref, <<"nats-obj://">>) THEN NoRef
    ELSE LET path == Tail(ref)
             slash == Find(path, "/", 1)
         IN IF slash = 0 THEN NoRef
            ELSE [bucket_name |-> SubSeq(path, 1, slash - 1),
                  object_key |-> SubSeq(path, slash + 1, Len(path))]

\* A resolution that also rewrites the block when the object is empty.
resolve_block_empty_object(block, nats_client, store) ==
    IF ~IsDict(block) THEN block
    ELSE IF Get(block, "type", NoneVal) # "input_image" THEN block
    ELSE LET url == Get(block, "image_url", <<>>)
             parsed == parse_nats_object_ref(url)
         IN IF StartsWith(url, <<"data:">>) THEN block
            ELSE IF parsed # NoRef /\ nats_client
            THEN LET data == get_object(store, parsed.bucket_name, parsed.object_key) IN
                 IF data.kind = "bytes"
                 THEN ("image_url" :> <<"data:", mime_type(data.data), ";", "base64,",
                                        b64encode(data.data)>>) @@ block
                 ELSE block
            ELSE block

\* What one turn of the loop of resolve_image_urls appends for a block.
resolve_block(block, nats_client, store) ==
    IF ~IsDict(block) THEN block
    ELSE IF Get(block, "type", NoneVal) # "input_image" THEN block
    ELSE LET url == Get(block, "image_url", <<>>)
             parsed == parse_nats_object_ref(url)
         IN IF StartsWith(url, <<"data:">>) THEN block
            ELSE IF parsed # NoRef /\ nats_client
            THEN LET data == get_object(store, parsed.bucket_name, parsed.object_key) IN
                 IF data.kind = "bytes" /\ data.data # <<>>
                 THEN ("image_url" :> <<"data:", mime_type(data.data), ";", "base64,",
                                        b64encode(data.data)>>) @@ block
                 ELSE block
            ELSE block

resolve_image_urls(content, nats_client, store) ==
    IF IsStr(content) THEN content
    ELSE IF ~IsList(content) THEN content
    ELSE List([n \in 1 .. Len(content.list) |->
                  resolve_block(content.list[n], nats_client, store)])

NatsUrl(key) == <<"nats-obj://", "images", "/", key>>
ResolveBlocks ==
    { [type |-> "input_image", image_url |-> u] :
          u \in { DataUrl, NatsUrl("k1"), NatsUrl("k2"), <<"nats-obj://", "images">>,
                  <<"https://", "host", "/", "a.png">> } }
    \cup { [type |-> "input_image", image_url |-> NatsUrl("k1"), detail |-> "high"],
           [type |-> "input_image"],
           [type |-> "input_text", text |-> "hi"],
           [type |-> "file", file |-> [url |-> NatsUrl("k1")]],
           [str |-> "hi"] }
ResolveContents ==
    { Str("hello"), [other |-> NoneVal] }
    \cup { List(blocks) : blocks \in Strings(ResolveBlocks, MaxBlocks) }

CallResolveImageUrls(content, nats_client, store) ==
    /\ last = NoCall
    /\ last' = [op |-> "resolve_image_urls", content |-> content,
                nats_client |-> nats_client, store |-> store,
                result |-> resolve_image_urls(content, nats_client, store)]
    /\ UNCHANGED others

\* The block is an image whose URL is nats-obj://images/<key> and the store
\* returns a non-empty object for the key.
Fetched(block, nats_client, store) ==
    /\ nats_client
    /\ Get(block, "type", NoneVal) = "input_image"
    /\ \E k \in ObjectKeys :
           /\ Get(block, "image_url", <<>>) = NatsUrl(k)
           /\ store[k].kind = "bytes" /\ store[k].data # <<>>

\* C28: resolve_image_urls returns as many blocks as it was given, in the
\* same order: an image on a nats-obj://<bucket>/<key> URL whose fetch
\* succeeds has its URL replaced by a data: URL and keeps its other keys;
\* every other block (fetch failed or returned nothing, a data: image, a
\* block that is not an image) is returned unchanged.
C28_ResolveKeepsBlocks ==
    (last.op = "resolve_image_urls" /\ IsList(last.content))
    => /\ IsList(last.result)
       /\ Len(last.result.list) = Len(last.content.list)
       /\ \A n \in 1 .. Len(last.content.list) :
              LET b == last.content.list[n]
                  r == last.result.list[n]
              IN IF Fetched(b, last.nats_client, last.store)
                 THEN /\ DOMAIN r = DOMAIN b
                      /\ \A f \in DOMAIN b \ {"image_url"} : r[f] = b[f]
                      /\ StartsWith(r.image_url, <<"data:">>)
                      /\ ~parse_data_url(r.image_url).raised
                 ELSE r = b

\* A list of a fetched image followed by one whose fetch returned nothing
\* or raised: the first is rewritten, the second is the original.
C28_Witness ==
    /\ last.op = "resolve_image_urls"
    /\ IsList(last.content)
    /\ Len(last.content.list) = 2
    /\ Fetched(last.content.list[1], last.nats_client, last.store)
    /\ last.content.list[2] = [type |-> "input_image", image_url |-> NatsUrl("k2")]
    /\ last.store["k2"].kind \in {"None", "raise"}
    /\ last.result.list[1].image_url = <<"data:", "image/jpeg", ";", "base64,", "/9j/4AA=">>
    /\ last.result.list[2] = last.content.list[2]


\* A dict whose type is one of the three OpenAI keeps.
IsOpenAIBlock(block) ==
    IsDict(block) /\ Get(block, "type", NoneVal) \in {"input_text", "input_image", "file"}

\* C29: for OPENAI the result has exactly the input_text, input_image and
\* file blocks of the input, in their order (text and image normalised, a
\* file as it is), and is the empty string when there is none; for either
\* target the result of converting a list is never the empty list: an empty
\* result is the empty string.
C29_OpenAIKeepsKnownBlocks ==
    (last.op = "convert_attachments_for_provider" /\ IsList(last.content))
    => LET kept == SelectSeq(last.content.list, IsOpenAIBlock)
           r == last.result
       IN /\ last.target_format = "openai"
             => IF kept = <<>> THEN r = Str("")
                ELSE /\ IsList(r)
                     /\ Len(r.list) = Len(kept)
                     /\ \A n \in 1 .. Len(kept) :
                            /\ r.list[n].type = kept[n].type
                            /\ kept[n].type = "input_text"
                               => r.list[n].text = Get(kept[n], "text", "")
                            /\ kept[n].type = "input_image"
                               => r.list[n].image_url = Get(kept[n], "image_url", <<>>)
                            /\ kept[n].type = "file" => r.list[n] = kept[n]
          /\ r # List(<<>>)
          /\ IsStr(r) => r = Str("")
          /\ last.target_format = "anthropic"
             => (r = Str("") <=> anthropic_content(last.content.list) = <<>>)

\* A block of unknown type before an image: OPENAI returns the image alone.
C29_Witness ==
    /\ last.op = "convert_attachments_for_provider"
    /\ last.target_format = "openai"
    /\ last.content = List(<< [type |-> "input_audio"],
                              [type |-> "input_image", image_url |-> DataUrl] >>)
    /\ last.result = List(<< [type |-> "input_image", image_url |-> DataUrl,
                              detail |-> "auto"] >>)


(***************************************************************************)
(* Usage reporter (services/usage_reporter.py).  A Decimal is its          *)
(* coefficient, a sequence of decimal digits, most significant first, and  *)
(* its exponent: the value is coefficient * 10^exp.  Arithmetic is that of *)
(* Python's decimal module in its default context: results are rounded to  *)
(* 28 significant digits, half to even.                                    *)
(***************************************************************************)
\* decimal.getcontext().prec
Prec == 28

Dec(digits, exp) == [digits |-> digits, exp |-> exp]

RECURSIVE DigitsOf(_)
\* The digits of str(n), n a non-negative int.
DigitsOf(n) == IF n < 10 THEN <<n>> ELSE DigitsOf(n \div 10) \o <<n % 10>>

RECURSIVE ToNat(_)
\* int(digits), for a coefficient short enough to be held in a machine word.
ToNat(digits) ==
    IF digits = <<>> THEN 0
    ELSE 10 * ToNat(SubSeq(digits, 1, Len(digits) - 1)) + digits[Len(digits)]

RECURSIVE StripLeading(_)
StripLeading(digits) ==
    IF Len(digits) > 1 /\ digits[1] = 0 THEN StripLeading(Tail(digits)) ELSE digits

Zeros(n) == [k \in 1 .. n |-> 0]
IsZero(d) == \A k \in 1 .. Len(d.digits) : d.digits[k] = 0

\* Decimal(str(n)) for an int n.
DecimalOfInt(n) == Dec(DigitsOf(n), 0)

RECURSIVE MulCarry(_, _, _)
\* digits * k + carry, digit by digit from the least significant one.
MulCarry(digits, k, carry) ==
    IF digits = <<>> THEN (IF carry = 0 THEN <<>> ELSE DigitsOf(carry))
    ELSE LET t == digits[Len(digits)] * k + carry IN
         MulCarry(SubSeq(digits, 1, Len(digits) - 1), k, t \div 10) \o <<t % 10>>

RECURSIVE AddCarry(_, _, _)
\* a + b + carry for coefficients of the same length.
AddCarry(a, b, carry) ==
    IF a = <<>> THEN (IF carry = 0 THEN <<>> ELSE <<carry>>)
    ELSE LET t == a[Len(a)] + b[Len(b)] + carry IN
         AddCarry(SubSeq(a, 1, Len(a) - 1), SubSeq(b, 1, Len(b) - 1), t \div 10)
         \o <<t % 10>>

RECURSIVE LongDiv(_, _, _)
\* divmod(int(digits) + r * 10^len, d): the quotient's digits and the remainder.
LongDiv(digits, d, r) ==
    IF digits = <<>> THEN [q |-> <<>>, r |-> r]
    ELSE LET cur == r * 10 + Head(digits)
             rest == LongDiv(Tail(digits), d, cur % d)
         IN [q |-> <<cur \div d>> \o rest.q, r |-> rest.r]

\* Decimal._fix: a coefficient of more than Prec digits is rounded to Prec
\* digits, half to even; a carry out of the top digit drops one more digit.
Fix(d) ==
    IF Len(d.digits) <= Prec THEN d
    ELSE LET kept == SubSeq(d.digits, 1, Prec)
             rest == SubSeq(d.digits, Prec + 1, Len(d.digits))
             tail0 == \A k \in 2 .. Len(rest) : rest[k] = 0
             up == \/ rest[1] > 5
                   \/ rest[1] = 5 /\ ~tail0
                   \/ rest[1] = 5 /\ tail0 /\ kept[Prec] % 2 = 1
             c == IF up THEN AddCarry(kept, Zeros(Prec), 1) ELSE kept
         IN IF Len(c) > Prec
            THEN Dec(SubSeq(c, 1, Prec), d.exp + Len(rest) + 1)
            ELSE Dec(c, d.exp + Len(rest))

\* Decimal.__mul__: the exact product, then _fix.  The shorter coefficient
\* is the multiplier.
Mul(a, b) ==
    LET big == IF Len(a.digits) >= Len(b.digits) THEN a ELSE b
        small == IF Len(a.digits) >= Len(b.digits) THEN b ELSE a
    IN Fix(Dec(StripLeading(MulCarry(big.digits, ToNat(small.digits), 0)),
               a.exp + b.exp))

\* Decimal.__add__: the operands brought to the smaller exponent, the exact
\* sum, then _fix.
Add(a, b) ==
    LET exp == IF a.exp <= b.exp THEN a.exp ELSE b.exp
        x == a.digits \o Zeros(a.exp - exp)
        y == b.digits \o Zeros(b.exp - exp)
        n == IF Len(x) >= Len(y) THEN Len(x) ELSE Len(y)
    IN Fix(Dec(StripLeading(AddCarry(Zeros(n - Len(x)) \o x, Zeros(n - Len(y)) \o y, 0)),
               exp))

RECURSIVE TowardsIdeal(_, _)
\* An exact quotient gets as close to the ideal exponent as its trailing
\* zeros allow.
TowardsIdeal(d, ideal_exp) ==
    IF d.exp < ideal_exp /\ d.digits[Len(d.digits)] = 0 /\ Len(d.digits) > 1
    THEN TowardsIdeal(Dec(SubSeq(d.digits, 1, Len(d.digits) - 1), d.exp + 1), ideal_exp)
    ELSE d

\* Decimal.__truediv__: raises on a zero divisor; otherwise divides the
\* dividend, shifted to give Prec + 1 digits, by the divisor, marks an inexact
\* quotient in its last digit, and _fix rounds it.
Div(a, b) ==
    IF IsZero(b) THEN Raise("DivisionByZero")
    ELSE IF IsZero(a) THEN Return(Dec(<<0>>, a.exp - b.exp))
    ELSE LET shift == Len(b.digits) - Len(a.digits) + Prec + 1
             dm == LongDiv(a.digits \o Zeros(shift), ToNat(b.digits), 0)
             coeff == StripLeading(dm.q)
             exp == a.exp - b.exp - shift
         IN Return(Fix(IF dm.r # 0
                       THEN Dec(IF coeff[Len(coeff)] % 5 = 0
                                THEN AddCarry(coeff, Zeros(Len(coeff)), 1)
                                ELSE coeff, exp)
                       ELSE TowardsIdeal(Dec(coeff, exp), a.exp - b.exp)))

RECURSIVE Normalize(_)
\* The same number without trailing zeros in its coefficient.
Normalize(d) ==
    IF IsZero(d) THEN Dec(<<0>>, 0)
    ELSE IF d.digits[Len(d.digits)] = 0
    THEN Normalize(Dec(SubSeq(d.digits, 1, Len(d.digits) - 1), d.exp + 1))
    ELSE d
\* Decimal.__eq__: equal as numbers.
NumEq(a, b) == Normalize(a) = Normalize(b)

NoReport == [none |-> NoneVal]

\* report_tokens_usage: the amounts of the usage report, or no report when
\* the computation raises (the exception is logged).  The prices and the
\* margin of the pricing are given as the Decimal their string parses to,
\* pricePer and the token counts as ints.
report_tokens_usage(pricing, usage) ==
    LET resale_margin == Get(pricing, "resaleMargin", Dec(<<1, 0>>, -1))
        text == Get(pricing, "text", [x \in {} |-> NoneVal])
        price_per == DecimalOfInt(Get(text, "pricePer", 1000000))
        text_tiers == Get(Get(text, "tiers", [x \in {} |-> NoneVal]), "default",
                          [x \in {} |-> NoneVal])
        text_prompt_price == Get(text_tiers, "prompt", Dec(<<0>>, 0))
        text_completion_price == Get(text_tiers, "completion", Dec(<<0>>, 0))
        text_prompt_price_resale == Mul(text_prompt_price, resale_margin)
        text_completion_price_resale == Mul(text_completion_price, resale_margin)
        prompt_tokens == DecimalOfInt(Get(usage, "promptTokens", 0))
        completion_tokens == DecimalOfInt(Get(usage, "completionTokens", 0))
    IN IF Div(text_prompt_price, price_per).raised THEN NoReport
       ELSE LET prompt_purchased_for ==
                    Mul(Div(text_prompt_price, price_per).value, prompt_tokens)
                prompt_sold_for ==
                    Mul(Div(text_prompt_price_resale, price_per).value, prompt_tokens)
                completion_purchased_for ==
                    Mul(Div(text_completion_price, price_per).value, completion_tokens)
                completion_sold_for ==
                    Mul(Div(text_completion_price_resale, price_per).value,
                        completion_tokens)
            IN [textPricePer |-> price_per,
                textPromptPriceResale |-> text_prompt_price_resale,
                textCompletionPriceResale |-> text_completion_price_resale,
                prompt |-> [purchasedFor |-> prompt_purchased_for,
                            soldToClientFor |-> prompt_sold_for],
                completion |-> [purchasedFor |-> completion_purchased_for,
                                soldToClientFor |-> completion_sold_for],
                total |-> [purchasedFor |-> Add(prompt_purchased_for,
                                                completion_purchased_for),
                           soldToClientFor |-> Add(prompt_sold_for, completion_sold_for)]]

\* Pricings: prices 3 and 15 or 1 and 2 per 1,000,000, per 3 or per 0 tokens,
\* margins 1.5 and 3, and a pricing without any of its keys.
Pricings ==
    { [resaleMargin |-> m,
       text |-> [pricePer |-> per, tiers |-> [default |-> [prompt |-> p[1],
                                                          completion |-> p[2]]]]] :
          m \in {Dec(<<1, 5>>, -1), Dec(<<3>>, 0)},
          per \in {1000000, 3, 0},
          p \in { <<Dec(<<3>>, 0), Dec(<<1, 5>>, 0)>>, <<Dec(<<1>>, 0), Dec(<<2>>, 0)>> } }
    \cup { [x \in {} |-> NoneVal] }
TokenCounts == {0, 1, 500, 1000}
Usages == [promptTokens : TokenCounts, completionTokens : TokenCounts]

CallReportTokensUsage(pricing, usage) ==
    /\ last = NoCall
    /\ last' = [op |-> "report_tokens_usage", pricing |-> pricing, usage |-> usage,
                report |-> report_tokens_usage(pricing, usage)]
    /\ UNCHANGED others


\* C30: in a usage report, promptPurchasedFor = promptPrice / pricePer *
\* promptTokens and completionPurchasedFor = completionPrice / pricePer *
\* completionTokens, each soldToClientFor is the matching purchasedFor times
\* resaleMargin, and each total is the sum of its prompt and completion
\* parts; for 1000 prompt and 500 completion tokens at prices 3 and 15 per
\* 1,000,000 and margin 1.5 the report has promptPurchasedFor = 0.003,
\* completionPurchasedFor = 0.0075 and total.soldToClientFor = 0.015750.
C30_TextPricing ==
    (/\ last.op = "report_tokens_usage"
     /\ "text" \in DOMAIN last.pricing
     /\ last.report # NoReport)
    => LET resaleMargin == last.pricing.resaleMargin
           pricePer == DecimalOfInt(last.pricing.text.pricePer)
           promptPrice == last.pricing.text.tiers.default.prompt
           completionPrice == last.pricing.text.tiers.default.completion
           promptTokens == DecimalOfInt(last.usage.promptTokens)
           completionTokens == DecimalOfInt(last.usage.completionTokens)
           r == last.report
       IN /\ NumEq(r.prompt.purchasedFor,
                   Mul(Div(promptPrice, pricePer).value, promptTokens))
          /\ NumEq(r.completion.purchasedFor,
                   Mul(Div(completionPrice, pricePer).value, completionTokens))
          /\ NumEq(r.prompt.soldToClientFor, Mul(r.prompt.purchasedFor, resaleMargin))
          /\ NumEq(r.completion.soldToClientFor,
                   Mul(r.completion.purchasedFor, resaleMargin))
          /\ NumEq(r.total.purchasedFor,
                   Add(r.prompt.purchasedFor, r.completion.purchasedFor))
          /\ NumEq(r.total.soldToClientFor,
                   Add(r.prompt.soldToClientFor, r.completion.soldToClientFor))
          /\ (/\ last.usage = [promptTokens |-> 1000, completionTokens |-> 500]
              /\ last.pricing.text.pricePer = 1000000
              /\ promptPrice = Dec(<<3>>, 0) /\ completionPrice = Dec(<<1, 5>>, 0)
              /\ resaleMargin = Dec(<<1, 5>>, -1))
             => /\ NumEq(r.prompt.purchasedFor, Dec(<<3>>, -3))
                /\ NumEq(r.completion.purchasedFor, Dec(<<7, 5>>, -4))
                /\ NumEq(r.total.soldToClientFor, Dec(<<1, 5, 7, 5, 0>>, -6))


(***************************************************************************)
(* Shutdown of the service (main.py lifespan): ProviderRegistry.shutdown   *)
(* runs once, at any moment of the service's life.                         *)
(***************************************************************************)
\* A shutdown that clears the registry without stopping the providers.
ShutdownNoStop ==
    /\ last = NoCall
    /\ instances' = EmptyMap
    /\ last' = [op |-> "shutdown", key |-> <<>>, name |-> NoneVal, ok |-> TRUE, id |-> 0,
                before |-> instances, heapBefore |-> heap]
    /\ UNCHANGED <<req, queue, heap, apiKeys, limits, transport, tasks, wire>>

\* ProviderRegistry.shutdown: stop() on every provider of a snapshot of the
\* registry, then instances.clear().  stop() sets should_stop and, with
\* stream_task never assigned, awaits nothing, so the loop is one step of
\* the event loop.  last records the registry the shutdown found.
Shutdown ==
    /\ last = NoCall
    /\ heap' = [id \in ProvIds |->
                   IF id \in Range(instances) THEN [heap[id] EXCEPT !.should_stop = TRUE]
                   ELSE heap[id]]
    /\ instances' = EmptyMap
    /\ last' = [op |-> "shutdown", key |-> <<>>, name |-> NoneVal, ok |-> TRUE, id |-> 0,
                before |-> instances, heapBefore |-> heap]
    /\ UNCHANGED <<req, queue, apiKeys, limits, transport, tasks, wire>>

NextShutdown == Next \/ Shutdown

\* The service under a light load (one request at a time, one text delta,
\* one other vendor event), shut down at some moment.
InitShutdown ==
    /\ transport = NewTransport
    /\ req = [i \in Slots |-> FreeSlot]
    /\ queue = <<>>
    /\ instances = EmptyMap
    /\ heap = [id \in ProvIds |-> NoProvider]
    /\ apiKeys \in Settings
    /\ tasks = <<>>
    /\ wire = <<>>
    /\ last = NoCall
    /\ limits = [inFlight |-> 1, deltas |-> 1, other |-> 1]

SpecShutdown == InitShutdown /\ [][NextShutdown]_vars

\* C31: the step of shutdown() leaves the registry empty and should_stop
\* set on every provider the registry held when it began; when a handler
\* that was still running returns afterwards, its removal of the key finds
\* nothing, changes nothing and the handler ends as usual.
C31_Shutdown ==
    [][ /\ (last.op # "shutdown" /\ last'.op = "shutdown")
           => /\ instances' = EmptyMap
              /\ \A k \in DOMAIN instances : heap'[instances[k]].should_stop
        /\ \A i \in Slots :
              (/\ last.op = "shutdown"
               /\ req[i].pc = "returning" /\ req'[i].pc = "done"
               /\ InstanceKey(req[i].data.ws, req[i].data.th) \notin DOMAIN instances)
              => instances' = instances
      ]_vars

\* A request was streaming when the registry was shut down; its handler has
\* returned since, and its provider had been stopped.
C31_Witness ==
    /\ last.op = "shutdown"
    /\ DOMAIN last.before = {InstanceKey("w1", "t1")}
    /\ \E i \in Slots :
          /\ req[i].pc = "done"
          /\ req[i].prov = last.before[InstanceKey("w1", "t1")]
          /\ req[i].streamExit = "stopped"
    /\ instances = EmptyMap


\* C32: _remove_instance raises nothing; it leaves a registry without the
\* key as it is, deletes the key and only the key from a registry that has
\* it, and removing the key once more changes nothing.
C32_RemoveIdempotent ==
    last.op = "remove"
    => /\ last.ok
       /\ DOMAIN instances = DOMAIN last.before \ {last.key}
       /\ \A k \in DOMAIN instances : instances[k] = last.before[k]
       /\ last.key \notin DOMAIN last.before => instances = last.before
       /\ RemoveInstance(instances, last.key) = instances

\* One of two registered keys has been removed; the other is still there.
C32_Witness ==
    /\ last.op = "remove"
    /\ Cardinality(DOMAIN last.before) = 2
    /\ last.key \in DOMAIN last.before
    /\ Cardinality(DOMAIN instances) = 1


\* C33: while a request for (workspaceId, threadId) is running, the key the
\* stop handler parses from ai.interaction.chat.stop.<workspaceId>.<threadId>
\* is the key the process handler registered the provider under, so the
\* stop handler finds the provider.
C33_StopKeyIsInstanceKey ==
    \A i \in Slots :
        req[i].pc \in WorkflowPcs
        => LET key == StopKey(StopSubjectDot(req[i].data.ws, req[i].data.th)) IN
           /\ key = InstanceKey(req[i].data.ws, req[i].data.th)
           /\ key \in DOMAIN instances
           /\ instances[key] = req[i].prov


\* The events a step hands to publish().
NewEvents == SubSeq(tasks', Len(tasks) + 1, Len(tasks'))

\* C34: once should_stop is set on the provider that runs an OpenAI request
\* inside its stream, no STREAMING, IMAGE_PARTIAL or IMAGE_COMPLETE event is
\* published for the request any more.
C34_NothingAfterStop ==
    [][ \A i \in Slots :
          (/\ req[i].pc \in StreamingPcs
           /\ Kind(i) = "OpenAI"
           /\ heap[req[i].prov].should_stop)
          => \A n \in 1 .. Len(NewEvents) :
                 NewEvents[n].req = i
                 => NewEvents[n].status \notin {"STREAMING", "IMAGE_PARTIAL",
                                                "IMAGE_COMPLETE"}
      ]_vars


\* C35: a stop is not lost.  While a request stays inside its stream,
\* should_stop, once set on its provider, stays set; and the stop() that
\* sets it on a request waiting for the next vendor event ends that wait:
\* the request has left its streaming loop when stop() returns.
C35_StopNotLost ==
    [][ \A i \in Slots :
          /\ (/\ req[i].pc \in StreamingPcs /\ req'[i].pc \in StreamingPcs
              /\ heap[req[i].prov].should_stop)
             => heap'[req[i].prov].should_stop
          /\ (/\ req[i].pc = "loop"
              /\ ~heap[req[i].prov].should_stop
              /\ heap'[req[i].prov].should_stop)
             => req'[i].pc # "loop"
      ]_vars


\* C37: a request has at most one event published on its error subject,
\* whatever made it fail.
C37_OneErrorEvent ==
    \A i \in Slots : req[i].pc # "free" => Len(OnError(wire \o tasks, i)) <= 1


(***************************************************************************)
(* The CHAT_PROCESS handlers of the message loops together with the        *)
(* registry: each installed CHAT_PROCESS subscription runs                 *)
(* _handler_chat_process for one message at a time.                        *)
(***************************************************************************)
\* _handler_chat_process of the message loop of subs[n], up to
\* `await provider.process(data)`: the instance is looked up or created.
\* (A message whose provider cannot be built starts no workflow.)
ProcessHandlerEnters(n, key, name) ==
    /\ IsConnected(transport)
    /\ n \in 1 .. Len(transport.subs)
    /\ transport.subs[n].subject = CHAT_PROCESS
    /\ transport.handling[n] = <<>>
    /\ LET g == GetOrCreateInstance(instances, heap, apiKeys, key, name)
       IN /\ g.ok
          /\ instances' = g.instances
          /\ heap' = g.heap
    /\ transport' = [transport EXCEPT !.handling[n] = key]
    /\ UNCHANGED <<req, queue, apiKeys, tasks, wire, last, limits>>

\* process() has returned: the handler removes the instance and returns.
ProcessHandlerLeaves(n) ==
    /\ n \in 1 .. Len(transport.handling)
    /\ transport.handling[n] # <<>>
    /\ instances' = RemoveInstance(instances, transport.handling[n])
    /\ heap' = Collect(heap, instances', req)
    /\ transport' = [transport EXCEPT !.handling[n] = <<>>]
    /\ UNCHANGED <<req, queue, apiKeys, tasks, wire, last, limits>>

NextHandlers ==
    \/ \E n \in 1 .. Len(transport.subs), key \in Keys, name \in ProviderNames :
           ProcessHandlerEnters(n, key, name)
    \/ \E n \in 1 .. Len(transport.subs) : ProcessHandlerLeaves(n)
    \/ Connect
    \/ ReconnectTask
    \/ ConnectFailed
    \/ Connected
    \/ InitSubscriptionsStep
    \/ ReconnectedCallback
    \/ CallbackInitStep
    \/ ClosedCallback

SpecHandlers == Init /\ [][NextHandlers]_vars

\* C36: while a handler runs the workflow of a message for key K, the
\* registry has an entry for K: no handler removes K while another request
\* on K is in progress.
C36_RunningIsRegistered ==
    \A n \in 1 .. Len(transport.handling) :
        transport.handling[n] # <<>> => transport.handling[n] \in DOMAIN instances


\* C38: whenever the subscriptions-initialized flag is set and the
\* connection is open, every declared subscription is installed on that
\* connection.
C38_InitializedMeansInstalled ==
    (transport.subscriptions_initialized /\ IsConnected(transport))
    => \A k \in 1 .. Len(Declared) :
           \E n \in 1 .. Len(transport.subs) : transport.subs[n] = Declared[k]


\* C39: at any time at most one connect attempt is in progress and at most
\* one reconnect task is pending, the connecting flag is set only while an
\* attempt is in progress, and no attempt starts while the transport is
\* connecting or connected.
C39_OneAttemptOneTimer ==
    /\ [](/\ transport.attempts <= 1
          /\ transport.timers <= 1
          /\ transport.is_connecting <=> (transport.attempts = 1)
          /\ transport.reconnect_timer <=> (transport.timers = 1))
    /\ [][(transport.is_connecting \/ IsConnected(transport))
          => transport'.attempts <= transport.attempts]_vars

\* A second failed attempt has replaced the reconnect task of the first,
\* which was still pending.
C39_Witness ==
    /\ transport.failures = 2
    /\ transport.timers = 1
    /\ transport.attempts = 0
    /\ ~transport.is_connecting


\* C40: for a pattern with exactly one '*', match_filter is true only if
\* the value is prefix + middle + suffix for some, possibly empty, middle,
\* prefix and suffix being the pattern's text before and after the '*'.
C40_PrefixMiddleSuffix ==
    (last.op = "match_filter" /\ Stars(last.pattern) = 1 /\ last.result)
    => LET idx == Find(last.pattern, "*", 1)
           prefix == SubSeq(last.pattern, 1, idx - 1)
           suffix == SubSeq(last.pattern, idx + 1, Len(last.pattern))
       IN \E k \in 0 .. (Len(last.value) - Len(prefix)) :
              last.value = prefix
                           \o SubSeq(last.value, Len(prefix) + 1, Len(prefix) + k)
                           \o suffix

\* Every function, on every input of the sets above.
\* A call is made from the state in which none was made yet.
NextCalls ==
    \/ last = NoCall /\ \E data \in RequestData, pt \in PayloadTypes, out \in HandlerOutcomes : CallReplyHandler(data, pt, out)
    \/ last = NoCall /\ \E value \in FilterValues, pattern \in FilterPatterns : CallMatchFilter(value, pattern)
    \/ last = NoCall /\ \E config \in AuthConfigs : CallApplyAuthentication(config)
    \/ last = NoCall /\ \E content \in Contents, target_format \in AttachmentFormat : CallConvertAttachments(content, target_format)
    \/ last = NoCall /\ \E block \in Blocks : CallConvertBlock(block)
    \/ last = NoCall /\ \E content \in ResolveContents, nats_client \in BOOLEAN, store \in Stores : CallResolveImageUrls(content, nats_client, store)
    \/ last = NoCall /\ \E pricing \in Pricings, usage \in Usages : CallReportTokensUsage(pricing, usage)

SpecCalls == Init /\ [][NextCalls]_vars

=========================================================================
